---- MODULE Spec2Model ----
(***************************************************************************)
(* Model of the OzonLogistics ETL pipeline (src/OzonApi/app/etl) and of    *)
(* the parts of the store (app/crud.py, app/models.py, app/schemas.py) it  *)
(* uses.  Text values are sequences of one-character strings, so that      *)
(* strip(), lower(), upper() and the regular expressions are computed and  *)
(* not assumed.  A pandas cell is a record [t, s, n]: t = "nan" for an     *)
(* empty cell, t = "str" for the text s, t = "num" for the number n        *)
(* (in hundredths).                                                        *)
(***************************************************************************)
EXTENDS Integers, Sequences, FiniteSets, TLC

\* ------------------------------------------------------------------ bounds
\* files in the input directory, rows in all of them together, pipeline runs
MaxFiles == 2
MaxRows == 3
MaxRuns == 2
MaxItems == 2
MaxUploads == 2
MaxUploadRows == 1

\* ------------------------------------------------------------ text helpers
LowerLetters == <<"a","b","c","d","e","f","g","h","i","j","k","l","m",
                  "n","o","p","q","r","s","t","u","v","w","x","y","z">>
UpperLetters == <<"A","B","C","D","E","F","G","H","I","J","K","L","M",
                  "N","O","P","Q","R","S","T","U","V","W","X","Y","Z">>
Digits == {"0","1","2","3","4","5","6","7","8","9"}
Range(f) == {f[x] : x \in DOMAIN f}
Letters == Range(LowerLetters) \cup Range(UpperLetters)
Whitespace == {" "}

\* a letter outside ASCII is written as its code point, "U+0430"
CyrLowerLetters ==
    <<"U+0430", "U+0431", "U+0432", "U+0433", "U+0434", "U+0435", "U+0436",
      "U+0437", "U+0438", "U+0439", "U+043A", "U+043B", "U+043C", "U+043D",
      "U+043E", "U+043F", "U+0440", "U+0441", "U+0442", "U+0443", "U+0444",
      "U+0445", "U+0446", "U+0447", "U+0448", "U+0449", "U+044A", "U+044B",
      "U+044C", "U+044D", "U+044E", "U+044F", "U+0451">>
CyrUpperLetters ==
    <<"U+0410", "U+0411", "U+0412", "U+0413", "U+0414", "U+0415", "U+0416",
      "U+0417", "U+0418", "U+0419", "U+041A", "U+041B", "U+041C", "U+041D",
      "U+041E", "U+041F", "U+0420", "U+0421", "U+0422", "U+0423", "U+0424",
      "U+0425", "U+0426", "U+0427", "U+0428", "U+0429", "U+042A", "U+042B",
      "U+042C", "U+042D", "U+042E", "U+042F", "U+0401">>
AllLower == LowerLetters \o CyrLowerLetters
AllUpper == UpperLetters \o CyrUpperLetters
AllLowerSet == Range(AllLower)
AllUpperSet == Range(AllUpper)

LowerChar(c) ==
    IF c \in AllUpperSet
    THEN AllLower[CHOOSE k \in DOMAIN AllUpper : AllUpper[k] = c]
    ELSE c
UpperChar(c) ==
    IF c \in AllLowerSet
    THEN AllUpper[CHOOSE k \in DOMAIN AllLower : AllLower[k] = c]
    ELSE c
\* a lower() that leaves the text as it is
Lower_unchanged(s) == s
\* str.lower() / str.upper()
Lower(s) == [k \in 1..Len(s) |-> LowerChar(s[k])]
Upper(s) == [k \in 1..Len(s) |-> UpperChar(s[k])]

RECURSIVE LStrip(_)
LStrip(s) ==
    IF s = <<>> THEN s
    ELSE IF Head(s) \in Whitespace THEN LStrip(Tail(s)) ELSE s
RECURSIVE RStrip(_)
RStrip(s) ==
    IF s = <<>> THEN s
    ELSE IF s[Len(s)] \in Whitespace THEN RStrip(SubSeq(s, 1, Len(s) - 1)) ELSE s
\* str.strip()
Strip(s) == RStrip(LStrip(s))

\* `sub in s` for Python strings
Contains(s, sub) ==
    \E k \in 0..(Len(s) - Len(sub)) : SubSeq(s, k + 1, k + Len(sub)) = sub
EndsWith(s, suf) ==
    Len(s) >= Len(suf) /\ SubSeq(s, Len(s) - Len(suf) + 1, Len(s)) = suf

\* ------------------------------------------------------------------- cells
NaN == [t |-> "nan", s |-> <<>>, n |-> 0]
Str(s) == [t |-> "str", s |-> s, n |-> 0]
Num(n) == [t |-> "num", s |-> <<>>, n |-> n]
\* pd.isna
IsNa(cell) == cell.t = "nan"

\* DataTransformer.clean_text (text columns hold text or are empty)
clean_text(cell) == IF IsNa(cell) THEN Str(<<>>) ELSE Str(Strip(cell.s))

\* dict helpers: a Python dict is a function; {**a, **b} lets b win
EmptyMap == [x \in {} |-> 0]
MapPut(m, k, v) == [x \in DOMAIN m \cup {k} |-> IF x = k THEN v ELSE m[x]]
DictMerge(a, b) ==
    [k \in DOMAIN a \cup DOMAIN b |-> IF k \in DOMAIN b THEN b[k] ELSE a[k]]
\* dict.get(key, default) on a statistics entry
Get(d, k, default) == IF k \in DOMAIN d THEN d[k] ELSE default

\* ---------------------------------------------------------- configuration
\* config/etl_config.py: each table is the sequence of its <<key, value>>
\* pairs
ORDER_STATUS_MAPPING ==
    <<<<<<"N", "E", "W">>, <<"N", "E", "W">>>>,
      <<<<"U+041D", "U+041E", "U+0412", "U+042B", "U+0419">>, <<"N", "E", "W">>>>,
      <<<<"C", "O", "N", "F", "I", "R", "M", "E", "D">>, <<"C", "O", "N", "F", "I", "R", "M", "E", "D">>>>,
      <<<<"U+041F", "U+041E", "U+0414", "U+0422", "U+0412", "U+0415", "U+0420", "U+0416", "U+0414", "U+0401", "U+041D">>, <<"C", "O", "N", "F", "I", "R", "M", "E", "D">>>>,
      <<<<"P", "R", "O", "C", "E", "S", "S", "I", "N", "G">>, <<"P", "R", "O", "C", "E", "S", "S", "I", "N", "G">>>>,
      <<<<"U+0412", " ", "U+041E", "U+0411", "U+0420", "U+0410", "U+0411", "U+041E", "U+0422", "U+041A", "U+0415">>, <<"P", "R", "O", "C", "E", "S", "S", "I", "N", "G">>>>,
      <<<<"S", "H", "I", "P", "P", "E", "D">>, <<"S", "H", "I", "P", "P", "E", "D">>>>,
      <<<<"U+041E", "U+0422", "U+041F", "U+0420", "U+0410", "U+0412", "U+041B", "U+0415", "U+041D">>, <<"S", "H", "I", "P", "P", "E", "D">>>>,
      <<<<"D", "E", "L", "I", "V", "E", "R", "E", "D">>, <<"D", "E", "L", "I", "V", "E", "R", "E", "D">>>>,
      <<<<"U+0414", "U+041E", "U+0421", "U+0422", "U+0410", "U+0412", "U+041B", "U+0415", "U+041D">>, <<"D", "E", "L", "I", "V", "E", "R", "E", "D">>>>,
      <<<<"C", "A", "N", "C", "E", "L", "L", "E", "D">>, <<"C", "A", "N", "C", "E", "L", "L", "E", "D">>>>,
      <<<<"U+041E", "U+0422", "U+041C", "U+0415", "U+041D", "U+0401", "U+041D">>, <<"C", "A", "N", "C", "E", "L", "L", "E", "D">>>>,
      <<<<"R", "E", "T", "U", "R", "N", "E", "D">>, <<"R", "E", "T", "U", "R", "N", "E", "D">>>>,
      <<<<"U+0412", "U+041E", "U+0417", "U+0412", "U+0420", "U+0410", "U+0429", "U+0401", "U+041D">>, <<"R", "E", "T", "U", "R", "N", "E", "D">>>>>>
PRODUCT_CATEGORY_MAPPING ==
    <<<<<<"E", "L", "E", "C", "T", "R", "O", "N", "I", "C", "S">>, <<"E", "L", "E", "C", "T", "R", "O", "N", "I", "C", "S">>>>,
      <<<<"U+042D", "U+041B", "U+0415", "U+041A", "U+0422", "U+0420", "U+041E", "U+041D", "U+0418", "U+041A", "U+0410">>, <<"E", "L", "E", "C", "T", "R", "O", "N", "I", "C", "S">>>>,
      <<<<"C", "L", "O", "T", "H", "I", "N", "G">>, <<"C", "L", "O", "T", "H", "I", "N", "G">>>>,
      <<<<"U+041E", "U+0414", "U+0415", "U+0416", "U+0414", "U+0410">>, <<"C", "L", "O", "T", "H", "I", "N", "G">>>>,
      <<<<"H", "O", "M", "E", "_", "G", "A", "R", "D", "E", "N">>, <<"H", "O", "M", "E", "_", "G", "A", "R", "D", "E", "N">>>>,
      <<<<"U+0414", "U+041E", "U+041C", " ", "U+0418", " ", "U+0421", "U+0410", "U+0414">>, <<"H", "O", "M", "E", "_", "G", "A", "R", "D", "E", "N">>>>,
      <<<<"B", "E", "A", "U", "T", "Y">>, <<"B", "E", "A", "U", "T", "Y">>>>,
      <<<<"U+041A", "U+0420", "U+0410", "U+0421", "U+041E", "U+0422", "U+0410">>, <<"B", "E", "A", "U", "T", "Y">>>>,
      <<<<"S", "P", "O", "R", "T", "S">>, <<"S", "P", "O", "R", "T", "S">>>>,
      <<<<"U+0421", "U+041F", "U+041E", "U+0420", "U+0422">>, <<"S", "P", "O", "R", "T", "S">>>>,
      <<<<"B", "O", "O", "K", "S">>, <<"B", "O", "O", "K", "S">>>>,
      <<<<"U+041A", "U+041D", "U+0418", "U+0413", "U+0418">>, <<"B", "O", "O", "K", "S">>>>,
      <<<<"K", "I", "D", "S">>, <<"K", "I", "D", "S">>>>,
      <<<<"U+0414", "U+0415", "U+0422", "U+0421", "U+041A", "U+0418", "U+0415", " ", "U+0422", "U+041E", "U+0412", "U+0410", "U+0420", "U+042B">>, <<"K", "I", "D", "S">>>>,
      <<<<"F", "O", "O", "D">>, <<"F", "O", "O", "D">>>>,
      <<<<"U+041F", "U+0420", "U+041E", "U+0414", "U+0423", "U+041A", "U+0422", "U+042B">>, <<"F", "O", "O", "D">>>>>>
PAYMENT_METHOD_MAPPING ==
    <<<<<<"C", "A", "R", "D", "_", "O", "N", "L", "I", "N", "E">>, <<"C", "A", "R", "D", "_", "O", "N", "L", "I", "N", "E">>>>,
      <<<<"U+041A", "U+0410", "U+0420", "U+0422", "U+0410", " ", "U+041E", "U+041D", "U+041B", "U+0410", "U+0419", "U+041D">>, <<"C", "A", "R", "D", "_", "O", "N", "L", "I", "N", "E">>>>,
      <<<<"C", "A", "R", "D", "_", "O", "N", "_", "D", "E", "L", "I", "V", "E", "R", "Y">>, <<"C", "A", "R", "D", "_", "O", "N", "_", "D", "E", "L", "I", "V", "E", "R", "Y">>>>,
      <<<<"U+041A", "U+0410", "U+0420", "U+0422", "U+0410", " ", "U+041F", "U+0420", "U+0418", " ", "U+041F", "U+041E", "U+041B", "U+0423", "U+0427", "U+0415", "U+041D", "U+0418", "U+0418">>, <<"C", "A", "R", "D", "_", "O", "N", "_", "D", "E", "L", "I", "V", "E", "R", "Y">>>>,
      <<<<"C", "A", "S", "H">>, <<"C", "A", "S", "H">>>>,
      <<<<"U+041D", "U+0410", "U+041B", "U+0418", "U+0427", "U+041D", "U+042B", "U+0415">>, <<"C", "A", "S", "H">>>>,
      <<<<"S", "B", "P">>, <<"S", "B", "P">>>>,
      <<<<"U+0421", "U+0411", "U+041F">>, <<"S", "B", "P">>>>,
      <<<<"E", "W", "A", "L", "L", "E", "T">>, <<"E", "W", "A", "L", "L", "E", "T">>>>,
      <<<<"U+042D", "U+041B", "U+0415", "U+041A", "U+0422", "U+0420", "U+041E", "U+041D", "U+041D", "U+042B", "U+0419", " ", "U+041A", "U+041E", "U+0428", "U+0415", "U+041B", "U+0401", "U+041A">>, <<"E", "W", "A", "L", "L", "E", "T">>>>,
      <<<<"C", "R", "E", "D", "I", "T">>, <<"C", "R", "E", "D", "I", "T">>>>,
      <<<<"U+0420", "U+0410", "U+0421", "U+0421", "U+0420", "U+041E", "U+0427", "U+041A", "U+0410">>, <<"C", "R", "E", "D", "I", "T">>>>>>

\* TABLE.get(key, default)
TableGet(table, key, default) ==
    IF \E k \in DOMAIN table : table[k][1] = key
    THEN table[CHOOSE k \in DOMAIN table : table[k][1] = key][2]
    ELSE default

\* ------------------------------------------------------------- validators
\* DataValidator.validate_email:
\*   ^[a-zA-Z0-9._%+-]+@[a-zA-Z0-9.-]+\.[a-zA-Z]{2,}$
EmailLocalChars == Letters \cup Digits \cup {".", "_", "%", "+", "-"}
EmailDomainChars == Letters \cup Digits \cup {".", "-"}
validate_email(cell) ==
    IF IsNa(cell) THEN FALSE
    ELSE LET s == cell.s IN
         \E a \in 1..Len(s), d \in 1..Len(s) :
            /\ s[a] = "@" /\ a > 1
            /\ \A k \in 1..(a - 1) : s[k] \in EmailLocalChars
            /\ s[d] = "." /\ d > a + 1
            /\ \A k \in (a + 1)..(d - 1) : s[k] \in EmailDomainChars
            /\ Len(s) - d >= 2
            /\ \A k \in (d + 1)..Len(s) : s[k] \in Letters

\* DataValidator.validate_phone:  ^[\+]?[0-9\s\-\(\)]{10,15}$
PhoneBodyChars == Digits \cup Whitespace \cup {"-", "(", ")"}
validate_phone(cell) ==
    IF IsNa(cell) THEN FALSE
    ELSE LET s == cell.s
             body == IF s # <<>> /\ Head(s) = "+" THEN Tail(s) ELSE s
             Ok(b) == /\ Len(b) >= 10 /\ Len(b) <= 15
                      /\ \A k \in 1..Len(b) : b[k] \in PhoneBodyChars
         IN  Ok(body)

\* DataValidator.validate_required_fields: the names of the fields that are
\* empty or blank, in the order of required_fields
RECURSIVE validate_required_fields(_, _)
validate_required_fields(row, required_fields) ==
    IF required_fields = <<>> THEN <<>>
    ELSE LET field == Head(required_fields)
             rest == validate_required_fields(row, Tail(required_fields))
             blank == \/ field \notin DOMAIN row
                      \/ IsNa(row[field])
                      \/ (row[field].t = "str" /\ Strip(row[field].s) = <<>>)
         IN  IF blank THEN <<field>> \o rest ELSE rest

\* a violation: a code and its argument (field names, or an email)
Violation(code, arg) == [code |-> code, arg |-> arg]

CustomerRequiredFields == <<"full_name", "email", "phone", "address">>

\* a validator that returns as soon as a required field is missing
validate_customer_row_firstonly(row) ==
    LET missing_fields == validate_required_fields(row, CustomerRequiredFields)
    IN  IF missing_fields # <<>>
        THEN <<Violation("missing_required_fields", missing_fields)>>
        ELSE (IF "email" \in DOMAIN row /\ ~validate_email(row.email)
              THEN <<Violation("bad_email_format", <<>>)>> ELSE <<>>)
             \o (IF "phone" \in DOMAIN row /\ ~validate_phone(row.phone)
                 THEN <<Violation("bad_phone_format", <<>>)>> ELSE <<>>)
\* CustomerValidator.validate_customer_row: the list of violations; the row
\* is valid when the list is empty
validate_customer_row(row) ==
    LET missing_fields == validate_required_fields(row, CustomerRequiredFields)
        e1 == IF missing_fields # <<>>
              THEN <<Violation("missing_required_fields", missing_fields)>> ELSE <<>>
        e2 == IF "email" \in DOMAIN row /\ ~validate_email(row.email)
              THEN <<Violation("bad_email_format", <<>>)>> ELSE <<>>
        e3 == IF "phone" \in DOMAIN row /\ ~validate_phone(row.phone)
              THEN <<Violation("bad_phone_format", <<>>)>> ELSE <<>>
    IN  e1 \o e2 \o e3

\* float(x) on a cell: a number in hundredths, nan, or ValueError (ok =
\* FALSE).  Text parses when it is [sign] digits [. one or two digits].
DigitSeq == <<"0","1","2","3","4","5","6","7","8","9">>
DigitVal(c) == (CHOOSE k \in 1..10 : DigitSeq[k] = c) - 1
RECURSIVE DigitsVal(_)
DigitsVal(s) ==
    IF s = <<>> THEN 0 ELSE DigitsVal(SubSeq(s, 1, Len(s) - 1)) * 10 + DigitVal(s[Len(s)])
AllDigits(s) == s # <<>> /\ \A k \in 1..Len(s) : s[k] \in Digits
FloatOf(ok, nan, v) == [ok |-> ok, nan |-> nan, v |-> v]
ParseFloat(text) ==
    LET s == Strip(text)
        neg == s # <<>> /\ Head(s) = "-"
        body == IF s # <<>> /\ Head(s) \in {"-", "+"} THEN Tail(s) ELSE s
        dots == {k \in 1..Len(body) : body[k] = "."}
        sign == IF neg THEN -1 ELSE 1
    IN  IF dots = {}
        THEN IF AllDigits(body)
             THEN FloatOf(TRUE, FALSE, sign * DigitsVal(body) * 100)
             ELSE FloatOf(FALSE, FALSE, 0)
        ELSE LET d == CHOOSE k \in dots : TRUE
                 whole == SubSeq(body, 1, d - 1)
                 frac == SubSeq(body, d + 1, Len(body))
             IN  IF Cardinality(dots) = 1 /\ AllDigits(whole) /\ AllDigits(frac)
                    /\ Len(frac) <= 2
                 THEN FloatOf(TRUE, FALSE,
                        sign * (DigitsVal(whole) * 100
                                + DigitsVal(frac) * (IF Len(frac) = 1 THEN 10 ELSE 1)))
                 ELSE FloatOf(FALSE, FALSE, 0)
float(cell) ==
    CASE cell.t = "num" -> FloatOf(TRUE, FALSE, cell.n)
      [] cell.t = "nan" -> FloatOf(TRUE, TRUE, 0)
      [] OTHER -> ParseFloat(cell.s)

ProductRequiredFields == <<"name", "sku", "weight", "category", "price">>

\* ProductValidator.validate_product_row
validate_product_row(row) ==
    LET missing_fields == validate_required_fields(row, ProductRequiredFields)
        e1 == IF missing_fields # <<>>
              THEN <<Violation("missing_required_fields", missing_fields)>> ELSE <<>>
        weight == float(IF "weight" \in DOMAIN row THEN row.weight ELSE Num(0))
        e2 == IF ~weight.ok THEN <<Violation("bad_weight_format", <<>>)>>
              ELSE IF ~weight.nan /\ weight.v <= 0
              THEN <<Violation("weight_not_positive", <<>>)>> ELSE <<>>
        price == float(IF "price" \in DOMAIN row THEN row.price ELSE Num(0))
        e3 == IF ~price.ok THEN <<Violation("bad_price_format", <<>>)>>
              ELSE IF ~price.nan /\ price.v < 0
              THEN <<Violation("price_negative", <<>>)>> ELSE <<>>
    IN  e1 \o e2 \o e3

OrderRequiredFields == <<"customer_email", "delivery_address", "payment_method">>

\* OrderValidator.validate_order_row
validate_order_row(row) ==
    LET missing_fields == validate_required_fields(row, OrderRequiredFields)
        e1 == IF missing_fields # <<>>
              THEN <<Violation("missing_required_fields", missing_fields)>> ELSE <<>>
        amount == float(IF "total_amount" \in DOMAIN row THEN row.total_amount ELSE Num(0))
        e2 == IF ~amount.ok THEN <<Violation("bad_amount_format", <<>>)>>
              ELSE IF ~amount.nan /\ amount.v < 0
              THEN <<Violation("amount_negative", <<>>)>> ELSE <<>>
    IN  e1 \o e2

\* ------------------------------------------------------ customer transform
\* CustomerDataTransformer._transform_valid_customer; uuid is the value
\* generate_uuid() returns
_transform_valid_customer(row, uuid) ==
    [customer_id |-> uuid,
     full_name |-> row.full_name.s,
     email |-> Lower(row.email.s),
     phone |-> row.phone.s,
     address |-> row.address.s]

\* the cleaning loop over ['full_name', 'email', 'phone', 'address']
clean_customer_row(row) ==
    [col \in DOMAIN row |->
        IF col \in {"full_name", "email", "phone", "address"}
        THEN clean_text(row[col]) ELSE row[col]]

\* one row of the error frame: the row's dict plus the two service columns
ErrorRow(cleaned_row, errors, index) ==
    [data |-> cleaned_row, _errors |-> errors, _original_index |-> index]

\* a loop without the else: a valid row also lands in error_rows
RECURSIVE transform_customer_loop_noelse(_, _, _)
transform_customer_loop_noelse(df, k, acc) ==
    IF k > Len(df) THEN acc
    ELSE LET index == df[k].index
             cleaned_row == clean_customer_row(df[k].row)
             errors == validate_customer_row(cleaned_row)
             is_valid == Len(errors) = 0
             with_valid ==
                 IF is_valid
                 THEN [acc EXCEPT !.valid_rows = Append(@,
                                     _transform_valid_customer(cleaned_row, acc.uuid)),
                                  !.uuid = @ + 1]
                 ELSE acc
         IN  transform_customer_loop_noelse(df, k + 1,
                [with_valid EXCEPT !.error_rows = Append(@,
                                       ErrorRow(cleaned_row, errors, index))])

\* CustomerDataTransformer.transform_customer_data: the loop over
\* df.iterrows(); df is the sequence of <<index label, row>> pairs
RECURSIVE transform_customer_loop(_, _, _)
transform_customer_loop(df, k, acc) ==
    IF k > Len(df) THEN acc
    ELSE LET index == df[k].index
             cleaned_row == clean_customer_row(df[k].row)
             errors == validate_customer_row(cleaned_row)
             is_valid == Len(errors) = 0
         IN  IF is_valid
             THEN transform_customer_loop(df, k + 1,
                    [acc EXCEPT !.valid_rows = Append(@,
                                   _transform_valid_customer(cleaned_row, acc.uuid)),
                                !.uuid = @ + 1])
             ELSE transform_customer_loop(df, k + 1,
                    [acc EXCEPT !.error_rows = Append(@,
                                   ErrorRow(cleaned_row, errors, index))])
transform_customer_data(df, uuid) ==
    transform_customer_loop(df, 1,
        [valid_rows |-> <<>>, error_rows |-> <<>>, uuid |-> uuid])

\* ------------------------------------------------------- product transform
\* a mapping whose default is the label as written
_transform_valid_product_rawdefault(row, uuid) ==
    LET category == clean_text(row.category).s
        category_code == TableGet(PRODUCT_CATEGORY_MAPPING, Upper(category), category)
    IN  [product_id |-> uuid,
         name |-> row.name.s,
         sku |-> Upper(row.sku.s),
         weight |-> float(row.weight),
         category_code |-> category_code,
         price |-> float(row.price)]
\* ProductDataTransformer._transform_valid_product
_transform_valid_product(row, uuid) ==
    LET category == clean_text(row.category).s
        category_code == TableGet(PRODUCT_CATEGORY_MAPPING, Upper(category), Upper(category))
    IN  [product_id |-> uuid,
         name |-> row.name.s,
         sku |-> Upper(row.sku.s),
         weight |-> float(row.weight),
         category_code |-> category_code,
         price |-> float(row.price)]

\* the cleaning loop over ['name', 'description', 'sku', 'category']
clean_product_row(row) ==
    [col \in DOMAIN row |->
        IF col \in {"name", "description", "sku", "category"}
        THEN clean_text(row[col]) ELSE row[col]]

\* ProductDataTransformer.transform_product_data
RECURSIVE transform_product_loop(_, _, _)
transform_product_loop(df, k, acc) ==
    IF k > Len(df) THEN acc
    ELSE LET index == df[k].index
             cleaned_row == clean_product_row(df[k].row)
             errors == validate_product_row(cleaned_row)
             is_valid == Len(errors) = 0
         IN  IF is_valid
             THEN transform_product_loop(df, k + 1,
                    [acc EXCEPT !.valid_rows = Append(@,
                                   _transform_valid_product(cleaned_row, acc.uuid)),
                                !.uuid = @ + 1])
             ELSE transform_product_loop(df, k + 1,
                    [acc EXCEPT !.error_rows = Append(@,
                                   ErrorRow(cleaned_row, errors, index))])
transform_product_data(df, uuid) ==
    transform_product_loop(df, 1,
        [valid_rows |-> <<>>, error_rows |-> <<>>, uuid |-> uuid])

\* --------------------------------------------------------- order transform
\* a transformer that gives every order to the customer registered last
_transform_valid_order_lastcustomer(row, customer_mapping, uuid) ==
    LET customer_email == Lower(clean_text(row.customer_email).s)
        payment_method == clean_text(row.payment_method).s
        payment_method_code == TableGet(PAYMENT_METHOD_MAPPING,
                                        Upper(payment_method), Upper(payment_method))
    IN  [order_id |-> uuid,
         customer_id |-> CHOOSE v \in Range(customer_mapping) :
                            \A w \in Range(customer_mapping) : w <= v,
         total_amount |-> float(row.total_amount),
         delivery_address |-> row.delivery_address.s,
         payment_method_code |-> payment_method_code,
         order_status_code |-> <<"N", "E", "W">>]
\* OrderDataTransformer._transform_valid_order
_transform_valid_order(row, customer_mapping, uuid) ==
    LET customer_email == Lower(clean_text(row.customer_email).s)
        payment_method == clean_text(row.payment_method).s
        payment_method_code == TableGet(PAYMENT_METHOD_MAPPING,
                                        Upper(payment_method), Upper(payment_method))
    IN  [order_id |-> uuid,
         customer_id |-> customer_mapping[customer_email],
         total_amount |-> float(row.total_amount),
         delivery_address |-> row.delivery_address.s,
         payment_method_code |-> payment_method_code,
         order_status_code |-> <<"N", "E", "W">>]

\* a loop without the customer check: the identifier is looked up with
\* customer_mapping.get(email)
RECURSIVE transform_order_loop_nogate(_, _, _, _)
transform_order_loop_nogate(df, customer_mapping, k, acc) ==
    IF k > Len(df) THEN acc
    ELSE LET index == df[k].index
             row == df[k].row
             cleaned_row == row
             errors == validate_order_row(cleaned_row)
             customer_email == Lower(clean_text(row.customer_email).s)
             looked_up == IF customer_email \in DOMAIN customer_mapping
                          THEN customer_mapping
                          ELSE MapPut(customer_mapping, customer_email, 0)
             is_valid == Len(errors) = 0
         IN  IF is_valid
             THEN transform_order_loop_nogate(df, customer_mapping, k + 1,
                    [acc EXCEPT !.valid_rows = Append(@,
                                   _transform_valid_order(cleaned_row, looked_up, acc.uuid)),
                                !.uuid = @ + 1])
             ELSE transform_order_loop_nogate(df, customer_mapping, k + 1,
                    [acc EXCEPT !.error_rows = Append(@,
                                   ErrorRow(cleaned_row, errors, index))])

\* OrderDataTransformer.transform_order_data
RECURSIVE transform_order_loop(_, _, _, _)
transform_order_loop(df, customer_mapping, k, acc) ==
    IF k > Len(df) THEN acc
    ELSE LET index == df[k].index
             row == df[k].row
             cleaned_row == row
             verdict == validate_order_row(cleaned_row)
             customer_email == Lower(clean_text(row.customer_email).s)
             found == customer_email \in DOMAIN customer_mapping
             errors == IF found THEN verdict
                       ELSE Append(verdict, Violation("customer_not_found", customer_email))
             is_valid == Len(verdict) = 0 /\ found
         IN  IF is_valid
             THEN transform_order_loop(df, customer_mapping, k + 1,
                    [acc EXCEPT !.valid_rows = Append(@,
                                   _transform_valid_order(cleaned_row, customer_mapping,
                                                          acc.uuid)),
                                !.uuid = @ + 1])
             ELSE transform_order_loop(df, customer_mapping, k + 1,
                    [acc EXCEPT !.error_rows = Append(@,
                                   ErrorRow(cleaned_row, errors, index))])
transform_order_data(df, customer_mapping, uuid) ==
    transform_order_loop(df, customer_mapping, 1,
        [valid_rows |-> <<>>, error_rows |-> <<>>, uuid |-> uuid])

\* ------------------------------------------------------------------ store
\* The store is the SQLAlchemy session every loader of one orchestrator
\* shares: the committed tables and the session's transaction state.  A
\* commit the database rejects leaves the session's transaction inactive
\* (crud.py has no rollback()), and every later statement or commit on the
\* session raises until the session is closed.
\* a lookup that never finds the customer
get_customer_by_email_notfound(customers, email) == {}
\* crud.get_customer_by_email: the stored customers with this email
get_customer_by_email(customers, email) == {c \in customers : c.email = email}

\* schemas.CustomerBase.validate_phone:  ^\+?[0-9]{10,15}$ on the phone with
\* blanks, dashes and brackets removed
schema_validate_phone(phone) ==
    LET cleaned == SelectSeq(phone, LAMBDA c : c \notin Whitespace \cup {"-", "(", ")"})
        body == IF cleaned # <<>> /\ Head(cleaned) = "+" THEN Tail(cleaned) ELSE cleaned
    IN  /\ Len(body) >= 10 /\ Len(body) <= 15
        /\ \A k \in 1..Len(body) : body[k] \in Digits

\* schemas.CustomerCreate(...): TRUE when pydantic accepts the fields
\* (EmailStr is taken to accept what the validator's pattern accepts)
CustomerCreate(full_name, email, phone, address) ==
    /\ Len(full_name) >= 2 /\ Len(full_name) <= 200
    /\ validate_email(Str(email))
    /\ Len(phone) <= 20 /\ schema_validate_phone(phone)
    /\ Len(address) >= 5 /\ Len(address) <= 500

\* models.Customer: email and phone are unique columns
CustomerUniqueViolated(customers, email, phone) ==
    \E c \in customers : c.email = email \/ c.phone = phone

LoadError(code, arg) == [code |-> code, arg |-> arg]

\* a loader that enters only the customers it creates into the map
RECURSIVE load_customer_loop_newonly(_, _, _)
load_customer_loop_newonly(valid_df, k, st) ==
    IF k > Len(valid_df) THEN st
    ELSE LET row == valid_df[k]
             email == Lower(Strip(row.email))
             existing == get_customer_by_email(st.customers, email)
             Failed(code) == [st EXCEPT !.stats.errors =
                                 Append(@, LoadError(code, row.full_name))]
             next ==
               IF ~st.active THEN Failed("PendingRollbackError")
               ELSE IF existing # {}
               THEN [st EXCEPT !.stats.customers_skipped = @ + 1]
               ELSE IF ~CustomerCreate(row.full_name, email, row.phone, row.address)
               THEN Failed("ValidationError")
               ELSE IF CustomerUniqueViolated(st.customers, email, row.phone)
               THEN [Failed("IntegrityError") EXCEPT !.active = FALSE]
               ELSE [st EXCEPT
                       !.customers = @ \cup {[customer_id |-> st.uuid,
                                              full_name |-> row.full_name,
                                              email |-> email,
                                              phone |-> row.phone,
                                              address |-> row.address]},
                       !.uuid = @ + 1,
                       !.customer_mapping = MapPut(@, email, st.uuid),
                       !.stats.customers_created = @ + 1]
         IN  load_customer_loop_newonly(valid_df, k + 1, next)

\* CustomerDataLoader.load_customer_data: the loop over valid_df.iterrows().
\* st carries stats, customer_mapping and the session (customers, active,
\* uuid for the identifiers the database mints).
RECURSIVE load_customer_loop(_, _, _)
load_customer_loop(valid_df, k, st) ==
    IF k > Len(valid_df) THEN st
    ELSE LET row == valid_df[k]
             email == Lower(Strip(row.email))
             existing == get_customer_by_email(st.customers, email)
             Failed(code) == [st EXCEPT !.stats.errors =
                                 Append(@, LoadError(code, row.full_name))]
             next ==
               IF ~st.active THEN Failed("PendingRollbackError")
               ELSE IF existing # {}
               THEN [st EXCEPT
                       !.customer_mapping =
                           MapPut(@, email, (CHOOSE c \in existing : TRUE).customer_id),
                       !.stats.customers_skipped = @ + 1]
               ELSE IF ~CustomerCreate(row.full_name, email, row.phone, row.address)
               THEN Failed("ValidationError")
               ELSE IF CustomerUniqueViolated(st.customers, email, row.phone)
               THEN [Failed("IntegrityError") EXCEPT !.active = FALSE]
               ELSE [st EXCEPT
                       !.customers = @ \cup {[customer_id |-> st.uuid,
                                              full_name |-> row.full_name,
                                              email |-> email,
                                              phone |-> row.phone,
                                              address |-> row.address]},
                       !.uuid = @ + 1,
                       !.customer_mapping = MapPut(@, email, st.uuid),
                       !.stats.customers_created = @ + 1]
         IN  load_customer_loop(valid_df, k + 1, next)

\* load_customer_data: raised is TRUE when the final self.db.commit() raises
load_customer_data(valid_df, customers, active, uuid) ==
    LET st == load_customer_loop(valid_df, 1,
                [stats |-> [total_processed |-> Len(valid_df),
                            customers_created |-> 0,
                            customers_skipped |-> 0,
                            errors |-> <<>>],
                 customer_mapping |-> EmptyMap,
                 customers |-> customers, active |-> active, uuid |-> uuid])
    IN  st @@ [raised |-> ~st.active]

\* the lookup tables of the store, as <<code, identifier>> pairs
Dictionary_ProductCategory ==
    <<<<<<"E", "L", "E", "C", "T", "R", "O", "N", "I", "C", "S">>, 1>>,
      <<<<"B", "O", "O", "K", "S">>, 2>>>>
Dictionary_PaymentMethod ==
    <<<<<<"C", "A", "S", "H">>, 1>>,
      <<<<"S", "B", "P">>, 2>>>>
Dictionary_OrderStatus ==
    <<<<<<"N", "E", "W">>, 1>>,
      <<<<"C", "O", "N", "F", "I", "R", "M", "E", "D">>, 2>>>>
\* what dict.get returns for a missing key
None == 0

\* crud.get_product_by_sku
get_product_by_sku(products, sku) == {p \in products : p.sku = sku}

\* schemas.ProductCreate(...): TRUE when pydantic accepts the fields
ProductCreate(name, sku, weight, category_id, price) ==
    /\ Len(name) >= 1 /\ Len(name) <= 200
    /\ Len(sku) >= 1 /\ Len(sku) <= 50
    /\ ~weight.nan /\ weight.v > 0
    /\ category_id > 0
    /\ ~price.nan /\ price.v >= 0

\* a loader that stores the row it skips in place of the stored product
RECURSIVE load_product_loop_upsert(_, _, _)
load_product_loop_upsert(valid_df, k, st) ==
    IF k > Len(valid_df) THEN st
    ELSE LET row == valid_df[k]
             sku == Upper(Strip(row.sku))
             existing == get_product_by_sku(st.products, sku)
             category_id == TableGet(Dictionary_ProductCategory, row.category_code, None)
             Failed(code, arg) == [st EXCEPT !.stats.errors =
                                      Append(@, LoadError(code, arg))]
             next ==
               IF ~st.active THEN Failed("PendingRollbackError", row.name)
               ELSE IF existing # {}
               THEN [st EXCEPT
                       !.products = (@ \ existing) \cup
                           {[product_id |-> st.uuid,
                             name |-> row.name,
                             sku |-> sku,
                             weight |-> row.weight.v,
                             category_id |-> category_id,
                             price |-> row.price.v]},
                       !.uuid = @ + 1,
                       !.stats.products_skipped = @ + 1]
               ELSE IF category_id = None
               THEN Failed("category_not_found", row.category_code)
               ELSE IF ~ProductCreate(row.name, sku, row.weight, category_id, row.price)
               THEN Failed("ValidationError", row.name)
               ELSE IF \E p \in st.products : p.sku = sku
               THEN [Failed("IntegrityError", row.name) EXCEPT !.active = FALSE]
               ELSE [st EXCEPT
                       !.products = @ \cup {[product_id |-> st.uuid,
                                             name |-> row.name,
                                             sku |-> sku,
                                             weight |-> row.weight.v,
                                             category_id |-> category_id,
                                             price |-> row.price.v]},
                       !.uuid = @ + 1,
                       !.stats.products_created = @ + 1]
         IN  load_product_loop_upsert(valid_df, k + 1, next)
\* ProductDataLoader.load_product_data: the loop over valid_df.iterrows()
RECURSIVE load_product_loop(_, _, _)
load_product_loop(valid_df, k, st) ==
    IF k > Len(valid_df) THEN st
    ELSE LET row == valid_df[k]
             sku == Upper(Strip(row.sku))
             existing == get_product_by_sku(st.products, sku)
             category_id == TableGet(Dictionary_ProductCategory, row.category_code, None)
             Failed(code, arg) == [st EXCEPT !.stats.errors =
                                      Append(@, LoadError(code, arg))]
             next ==
               IF ~st.active THEN Failed("PendingRollbackError", row.name)
               ELSE IF existing # {}
               THEN [st EXCEPT !.stats.products_skipped = @ + 1]
               ELSE IF category_id = None
               THEN Failed("category_not_found", row.category_code)
               ELSE IF ~ProductCreate(row.name, sku, row.weight, category_id, row.price)
               THEN Failed("ValidationError", row.name)
               ELSE IF \E p \in st.products : p.sku = sku
               THEN [Failed("IntegrityError", row.name) EXCEPT !.active = FALSE]
               ELSE [st EXCEPT
                       !.products = @ \cup {[product_id |-> st.uuid,
                                             name |-> row.name,
                                             sku |-> sku,
                                             weight |-> row.weight.v,
                                             category_id |-> category_id,
                                             price |-> row.price.v]},
                       !.uuid = @ + 1,
                       !.stats.products_created = @ + 1]
         IN  load_product_loop(valid_df, k + 1, next)

\* load_product_data: raised is TRUE when the query of the categories
\* before the loop, or the final self.db.commit(), raises
load_product_data(valid_df, products, active, uuid) ==
    LET st0 == [stats |-> [total_processed |-> Len(valid_df),
                           products_created |-> 0,
                           products_skipped |-> 0,
                           errors |-> <<>>],
                products |-> products, active |-> active, uuid |-> uuid]
        st == IF active THEN load_product_loop(valid_df, 1, st0) ELSE st0
    IN  st @@ [raised |-> ~st.active]

\* schemas.OrderCreate(...): TRUE when pydantic accepts the fields
OrderCreate(customer_id, order_status_id, total_amount, delivery_address, payment_method_id) ==
    /\ order_status_id > 0
    /\ ~total_amount.nan /\ total_amount.v >= 0
    /\ Len(delivery_address) >= 5 /\ Len(delivery_address) <= 500
    /\ payment_method_id > 0

\* a loader that leaves its loop at the first unknown payment method
RECURSIVE load_order_loop_break(_, _, _)
load_order_loop_break(valid_df, k, st) ==
    IF k > Len(valid_df) THEN st
    ELSE LET row == valid_df[k]
             status_id == TableGet(Dictionary_OrderStatus, row.order_status_code,
                             TableGet(Dictionary_OrderStatus, <<"N", "E", "W">>, None))
             payment_id == TableGet(Dictionary_PaymentMethod,
                                    row.payment_method_code, None)
             Failed(code, arg) == [st EXCEPT !.stats.errors =
                                      Append(@, LoadError(code, arg))]
             next ==
               IF ~OrderCreate(row.customer_id, status_id, row.total_amount,
                               row.delivery_address, payment_id)
               THEN Failed("ValidationError", <<>>)
               ELSE IF ~st.active THEN Failed("PendingRollbackError", <<>>)
               ELSE IF ~\E c \in st.customers : c.customer_id = row.customer_id
               THEN [Failed("IntegrityError", <<>>) EXCEPT !.active = FALSE]
               ELSE [st EXCEPT
                       !.orders = @ \cup {[order_id |-> st.uuid,
                                           customer_id |-> row.customer_id,
                                           order_status_id |-> status_id,
                                           total_amount |-> row.total_amount.v,
                                           delivery_address |-> row.delivery_address,
                                           payment_method_id |-> payment_id]},
                       !.uuid = @ + 1,
                       !.stats.orders_created = @ + 1]
         IN  IF payment_id = None
             THEN Failed("payment_method_not_found", row.payment_method_code)
             ELSE load_order_loop_break(valid_df, k + 1, next)
\* OrderDataLoader.load_order_data: the loop over valid_df.iterrows()
RECURSIVE load_order_loop(_, _, _)
load_order_loop(valid_df, k, st) ==
    IF k > Len(valid_df) THEN st
    ELSE LET row == valid_df[k]
             status_id == TableGet(Dictionary_OrderStatus, row.order_status_code,
                             TableGet(Dictionary_OrderStatus, <<"N", "E", "W">>, None))
             payment_id == TableGet(Dictionary_PaymentMethod,
                                    row.payment_method_code, None)
             Failed(code, arg) == [st EXCEPT !.stats.errors =
                                      Append(@, LoadError(code, arg))]
             next ==
               IF payment_id = None
               THEN Failed("payment_method_not_found", row.payment_method_code)
               ELSE IF ~OrderCreate(row.customer_id, status_id, row.total_amount,
                                    row.delivery_address, payment_id)
               THEN Failed("ValidationError", <<>>)
               ELSE IF ~st.active THEN Failed("PendingRollbackError", <<>>)
               ELSE IF ~\E c \in st.customers : c.customer_id = row.customer_id
               THEN [Failed("IntegrityError", <<>>) EXCEPT !.active = FALSE]
               ELSE [st EXCEPT
                       !.orders = @ \cup {[order_id |-> st.uuid,
                                           customer_id |-> row.customer_id,
                                           order_status_id |-> status_id,
                                           total_amount |-> row.total_amount.v,
                                           delivery_address |-> row.delivery_address,
                                           payment_method_id |-> payment_id]},
                       !.uuid = @ + 1,
                       !.stats.orders_created = @ + 1]
         IN  load_order_loop(valid_df, k + 1, next)

\* a loader that never sets total_processed
load_order_data_nototal(valid_df, orders, customers, active, uuid) ==
    LET st0 == [stats |-> [total_processed |-> 0,
                           orders_created |-> 0,
                           errors |-> <<>>],
                orders |-> orders, customers |-> customers,
                active |-> active, uuid |-> uuid]
        st == IF active THEN load_order_loop(valid_df, 1, st0) ELSE st0
    IN  st @@ [raised |-> ~st.active]
\* load_order_data: raised is TRUE when a query of the lookup tables before
\* the loop, or the final self.db.commit(), raises
load_order_data(valid_df, orders, customers, active, uuid) ==
    LET st0 == [stats |-> [total_processed |-> Len(valid_df),
                           orders_created |-> 0,
                           errors |-> <<>>],
                orders |-> orders, customers |-> customers,
                active |-> active, uuid |-> uuid]
        st == IF active THEN load_order_loop(valid_df, 1, st0) ELSE st0
    IN  st @@ [raised |-> ~st.active]

\* ------------------------------------------------------------- extraction
\* DataExtractor.list_available_files: the entries of the input directory,
\* in the order os.listdir returns them, that end in a supported format
ExtCsv == <<".", "c", "s", "v">>
ExtXlsx == <<".", "x", "l", "s", "x">>
ExtXls == <<".", "x", "l", "s">>
supported_formats == <<ExtCsv, ExtXlsx, ExtXls>>
list_available_files(dir) ==
    SelectSeq(dir, LAMBDA f :
        \E k \in 1..Len(supported_formats) :
            EndsWith(Lower(f.name), supported_formats[k]))

\* df.dropna(how='all') after reading: the rows that are not entirely
\* empty, each with its index label (its 0-based position in the file)
AllNa(row) == \A col \in DOMAIN row : IsNa(row[col])
extract_data(file) ==
    LET indexed == [k \in 1..Len(file.rows) |->
                       [index |-> k - 1, row |-> file.rows[k]]]
    IN  SelectSeq(indexed, LAMBDA r : ~AllNa(r.row))

\* ----------------------------------------------------------- orchestrator
\* what one process_*_file call leaves behind: out.entry is the value of
\* self.stats[kind]; out.report is <<>> or the one error artifact written
ErrorReport(errors_df, source_file, process_type) ==
    [source_file |-> source_file, process_type |-> process_type,
     total_errors |-> Len(errors_df), rows |-> errors_df]

\* an except branch that records the error without the zero count
FailedEntry_nocount(e) == [error |-> e]
FailedEntry(e) == [error |-> e, total_processed |-> 0]

\* ETLOrchestrator._generate_summary: the sums over self.stats.items();
\* success_rate in hundredths of a percent, round(x, 2) taken to the
\* nearest hundredth
RECURSIVE SumStats(_, _, _)
SumStats(stats, names, key) ==
    IF names = {} THEN 0
    ELSE LET process_name == CHOOSE n \in names : TRUE
         IN  Get(stats[process_name], key, 0)
                + SumStats(stats, names \ {process_name}, key)
Round2(num, den) == (2 * num * 100 + den) \div (2 * den)
_generate_summary(stats) ==
    LET total_processed == SumStats(stats, DOMAIN stats, "total_processed")
        total_valid == SumStats(stats, DOMAIN stats, "valid_records")
        total_errors == SumStats(stats, DOMAIN stats, "error_records")
        total_created == SumStats(stats, DOMAIN stats, "customers_created")
                           + SumStats(stats, DOMAIN stats, "products_created")
                           + SumStats(stats, DOMAIN stats, "orders_created")
    IN  [total_processed |-> total_processed,
         total_valid |-> total_valid,
         total_errors |-> total_errors,
         total_created |-> total_created,
         success_rate |-> IF total_processed > 0
                          THEN Round2(total_valid * 100, total_processed) ELSE 0]

\* an orchestrator that adds a file's customers to the map it holds
process_customers_file_extends(file, s) ==
    LET \* the rest of the try block once the loader has been called
        Record(raw_data, valid_data, errors_data, l) ==
            LET seen == [s EXCEPT !.raw_data = raw_data,
                                  !.valid_data = valid_data,
                                  !.errors_data = errors_data,
                                  !.load_errors = l.stats.errors,
                                  !.customers = l.customers,
                                  !.active = l.active,
                                  !.uuid = l.uuid]
            IN  IF l.raised
                THEN [seen EXCEPT !.entry = FailedEntry("PendingRollbackError"),
                                  !.raised = TRUE]
                ELSE IF errors_data # <<>> /\ ~s.writable
                THEN \* save_errors_report raises
                     [seen EXCEPT !.customer_mapping = l.customer_mapping @@ s.customer_mapping,
                                  !.entry = FailedEntry("OSError"),
                                  !.raised = TRUE]
                ELSE [seen EXCEPT
                        !.customer_mapping = l.customer_mapping @@ s.customer_mapping,
                        !.report = IF errors_data # <<>>
                                   THEN <<ErrorReport(errors_data, file.name, "customers")>>
                                   ELSE <<>>,
                        !.entry = DictMerge([total_processed |-> Len(raw_data),
                                             valid_records |-> Len(valid_data),
                                             error_records |-> Len(errors_data)],
                                            l.stats),
                        !.saved_final_report = s.writable]
        \* Load
        Load(raw_data, t) ==
            Record(raw_data, t.valid_rows, t.error_rows,
                   load_customer_data(t.valid_rows, s.customers, s.active, t.uuid))
        \* Transform
        Transform(raw_data) ==
            Load(raw_data, transform_customer_data(raw_data, s.uuid))
    IN  IF ~file.readable
        THEN [s EXCEPT !.entry = FailedEntry("FileReadError"), !.raised = TRUE]
        ELSE Transform(extract_data(file))
\* ETLOrchestrator.process_customers_file
process_customers_file(file, s) ==
    LET \* the rest of the try block once the loader has been called
        Record(raw_data, valid_data, errors_data, l) ==
            LET seen == [s EXCEPT !.raw_data = raw_data,
                                  !.valid_data = valid_data,
                                  !.errors_data = errors_data,
                                  !.load_errors = l.stats.errors,
                                  !.customers = l.customers,
                                  !.active = l.active,
                                  !.uuid = l.uuid]
            IN  IF l.raised
                THEN [seen EXCEPT !.entry = FailedEntry("PendingRollbackError"),
                                  !.raised = TRUE]
                ELSE IF errors_data # <<>> /\ ~s.writable
                THEN \* save_errors_report raises
                     [seen EXCEPT !.customer_mapping = l.customer_mapping,
                                  !.entry = FailedEntry("OSError"),
                                  !.raised = TRUE]
                ELSE [seen EXCEPT
                        !.customer_mapping = l.customer_mapping,
                        !.report = IF errors_data # <<>>
                                   THEN <<ErrorReport(errors_data, file.name, "customers")>>
                                   ELSE <<>>,
                        !.entry = DictMerge([total_processed |-> Len(raw_data),
                                             valid_records |-> Len(valid_data),
                                             error_records |-> Len(errors_data)],
                                            l.stats),
                        !.saved_final_report = s.writable]
        \* Load
        Load(raw_data, t) ==
            Record(raw_data, t.valid_rows, t.error_rows,
                   load_customer_data(t.valid_rows, s.customers, s.active, t.uuid))
        \* Transform
        Transform(raw_data) ==
            Load(raw_data, transform_customer_data(raw_data, s.uuid))
    IN  IF ~file.readable
        THEN [s EXCEPT !.entry = FailedEntry("FileReadError"), !.raised = TRUE]
        ELSE Transform(extract_data(file))

\* an orchestrator that writes the error report before it calls the loader
process_products_file_reportfirst(file, s) ==
    LET Record(raw_data, valid_data, errors_data, l) ==
            LET seen == [s EXCEPT !.raw_data = raw_data,
                                  !.valid_data = valid_data,
                                  !.errors_data = errors_data,
                                  !.load_errors = l.stats.errors,
                                  !.products = l.products,
                                  !.active = l.active,
                                  !.uuid = l.uuid]
                report == IF errors_data # <<>>
                          THEN <<ErrorReport(errors_data, file.name, "products")>>
                          ELSE <<>>
            IN  IF errors_data # <<>> /\ ~s.writable
                THEN [s EXCEPT !.raw_data = raw_data,
                               !.valid_data = valid_data,
                               !.errors_data = errors_data,
                               !.entry = FailedEntry("OSError"),
                               !.raised = TRUE]
                ELSE IF l.raised
                THEN [seen EXCEPT !.report = report,
                                  !.entry = FailedEntry("PendingRollbackError"),
                                  !.raised = TRUE]
                ELSE [seen EXCEPT
                        !.report = report,
                        !.entry = DictMerge([total_processed |-> Len(raw_data),
                                             valid_records |-> Len(valid_data),
                                             error_records |-> Len(errors_data)],
                                            l.stats),
                        !.saved_final_report = s.writable]
        Load(raw_data, t) ==
            Record(raw_data, t.valid_rows, t.error_rows,
                   load_product_data(t.valid_rows, s.products, s.active, t.uuid))
        Transform(raw_data) ==
            Load(raw_data, transform_product_data(raw_data, s.uuid))
    IN  IF ~file.readable
        THEN [s EXCEPT !.entry = FailedEntry("FileReadError"), !.raised = TRUE]
        ELSE Transform(extract_data(file))
\* ETLOrchestrator.process_products_file
process_products_file(file, s) ==
    LET \* the rest of the try block once the loader has been called
        Record(raw_data, valid_data, errors_data, l) ==
            LET seen == [s EXCEPT !.raw_data = raw_data,
                                  !.valid_data = valid_data,
                                  !.errors_data = errors_data,
                                  !.load_errors = l.stats.errors,
                                  !.products = l.products,
                                  !.active = l.active,
                                  !.uuid = l.uuid]
            IN  IF l.raised
                THEN [seen EXCEPT !.entry = FailedEntry("PendingRollbackError"),
                                  !.raised = TRUE]
                ELSE IF errors_data # <<>> /\ ~s.writable
                THEN \* save_errors_report raises
                     [seen EXCEPT !.entry = FailedEntry("OSError"),
                                  !.raised = TRUE]
                ELSE [seen EXCEPT
                        !.report = IF errors_data # <<>>
                                   THEN <<ErrorReport(errors_data, file.name, "products")>>
                                   ELSE <<>>,
                        !.entry = DictMerge([total_processed |-> Len(raw_data),
                                             valid_records |-> Len(valid_data),
                                             error_records |-> Len(errors_data)],
                                            l.stats),
                        !.saved_final_report = s.writable]
        \* Load
        Load(raw_data, t) ==
            Record(raw_data, t.valid_rows, t.error_rows,
                   load_product_data(t.valid_rows, s.products, s.active, t.uuid))
        \* Transform
        Transform(raw_data) ==
            Load(raw_data, transform_product_data(raw_data, s.uuid))
    IN  IF ~file.readable
        THEN [s EXCEPT !.entry = FailedEntry("FileReadError"), !.raised = TRUE]
        ELSE Transform(extract_data(file))

\* ETLOrchestrator.process_orders_file
process_orders_file(file, s) ==
    LET \* the rest of the try block once the loader has been called
        Record(raw_data, valid_data, errors_data, l) ==
            LET seen == [s EXCEPT !.raw_data = raw_data,
                                  !.valid_data = valid_data,
                                  !.errors_data = errors_data,
                                  !.load_errors = l.stats.errors,
                                  !.orders = l.orders,
                                  !.active = l.active,
                                  !.uuid = l.uuid]
            IN  IF l.raised
                THEN [seen EXCEPT !.entry = FailedEntry("PendingRollbackError"),
                                  !.raised = TRUE]
                ELSE IF errors_data # <<>> /\ ~s.writable
                THEN \* save_errors_report raises
                     [seen EXCEPT !.entry = FailedEntry("OSError"),
                                  !.raised = TRUE]
                ELSE [seen EXCEPT
                        !.report = IF errors_data # <<>>
                                   THEN <<ErrorReport(errors_data, file.name, "orders")>>
                                   ELSE <<>>,
                        !.entry = DictMerge([total_processed |-> Len(raw_data),
                                             valid_records |-> Len(valid_data),
                                             error_records |-> Len(errors_data)],
                                            l.stats),
                        !.saved_final_report = s.writable]
        \* Load
        Load(raw_data, t) ==
            Record(raw_data, t.valid_rows, t.error_rows,
                   load_order_data(t.valid_rows, s.orders, s.customers, s.active, t.uuid))
        \* Transform
        Transform(raw_data) ==
            Load(raw_data, transform_order_data(raw_data, s.customer_mapping, s.uuid))
    IN  IF ~file.readable
        THEN [s EXCEPT !.entry = FailedEntry("FileReadError"), !.raised = TRUE]
        ELSE Transform(extract_data(file))

\* the branch of run_etl_pipeline's if/elif chain a file name takes
KwCustomer == <<"c", "u", "s", "t", "o", "m", "e", "r">>
KwKlient == <<"U+043A", "U+043B", "U+0438", "U+0435", "U+043D", "U+0442">>
KwProduct == <<"p", "r", "o", "d", "u", "c", "t">>
KwTovar == <<"U+0442", "U+043E", "U+0432", "U+0430", "U+0440">>
KwOrder == <<"o", "r", "d", "e", "r">>
KwZakaz == <<"U+0437", "U+0430", "U+043A", "U+0430", "U+0437">>
\* a routing that knows the English keywords only
Route_english(name) ==
    LET file_lower == Lower(name) IN
    IF Contains(file_lower, KwCustomer) THEN "customers"
    ELSE IF Contains(file_lower, KwProduct) THEN "products"
    ELSE IF Contains(file_lower, KwOrder) THEN "orders"
    ELSE "unknown"
Route(name) ==
    LET file_lower == Lower(name) IN
    IF Contains(file_lower, KwCustomer) \/ Contains(file_lower, KwKlient)
    THEN "customers"
    ELSE IF Contains(file_lower, KwProduct) \/ Contains(file_lower, KwTovar)
    THEN "products"
    ELSE IF Contains(file_lower, KwOrder) \/ Contains(file_lower, KwZakaz)
    THEN "orders"
    ELSE "unknown"

\* ------------------------------------------------------------------ inputs
Rep(c, n) == [k \in 1..n |-> c]
NameAl == Str(<<"A", "l">>)
AddrMoSt == Str(<<"M", "o", " ", "s", "t">>)
EmailA == Str(<<"a", "@", "b", ".", "c", "c">>)
EmailAVariant == Str(<<" ", "A", "@", "B", ".", "c", "c">>)
EmailC == Str(<<"c", "@", "b", ".", "c", "c">>)
EmailCVariant == Str(<<"C", "@", "b", ".", "c", "c", " ">>)
Phone1 == Str(Rep("1", 10))
Phone2 == Str(Rep("2", 10))
PhoneDashes == Str(<<"1", "-", "1", "-", "1", "-", "1", "-", "1", "-">>)
CustomerRow(email, phone) ==
    [full_name |-> NameAl, email |-> email, phone |-> phone, address |-> AddrMoSt]
\* a customer; the same customer in another spelling of the email; a
\* customer with the first one's phone; a row without email; a customer
\* whose phone the validator accepts and schemas.CustomerCreate does not;
\* a row with a blank email and no phone
CustomerRows ==
    {CustomerRow(EmailA, Phone1), CustomerRow(EmailAVariant, Phone2),
     CustomerRow(EmailC, Phone1), CustomerRow(NaN, Phone2),
     CustomerRow(EmailC, PhoneDashes), CustomerRow(Str(<<" ">>), NaN)}

ProductRow(sku, weight, category) ==
    [name |-> Str(<<"t", "v">>), sku |-> sku, weight |-> weight,
     category |-> category, price |-> Num(1999)]
\* a product; the same SKU in another spelling, in a category the store
\* does not know; a product without weight
ProductRows ==
    {ProductRow(Str(<<"s", "1">>), Num(150), Str(<<"b", "o", "o", "k", "s">>)),
     ProductRow(Str(<<" ", "S", "1">>), Num(150), Str(<<"w", "i", "d", "g", "e", "t", "s">>)),
     ProductRow(Str(<<"s", "2">>), Num(0), Str(<<"b", "o", "o", "k", "s">>))}

OrderRow(email, payment_method, total_amount) ==
    [customer_email |-> email, delivery_address |-> AddrMoSt,
     payment_method |-> payment_method, total_amount |-> total_amount]
\* an order of customer a; an order of customer c with a payment method
\* the store does not know; an order with a negative total
OrderRows ==
    {OrderRow(EmailA, Str(<<"c", "a", "s", "h">>), Num(500)),
     OrderRow(EmailCVariant, Str(<<"b", "i", "t", "c", "o", "i", "n">>), Num(500)),
     OrderRow(EmailA, Str(<<"c", "a", "s", "h">>), Num(-100))}

FileCustomers == <<"c", "u", "s", "t", "o", "m", "e", "r", "s", ".", "c", "s", "v">>
FileProducts == <<"P", "r", "o", "d", "u", "c", "t", "s", ".", "x", "l", "s", "x">>
FileOrders == <<"o", "r", "d", "e", "r", "s", ".", "C", "S", "V">>
FileMisc == <<"m", "i", "s", "c", ".", "c", "s", "v">>
FileNotes == <<"n", "o", "t", "e", "s", ".", "t", "x", "t">>
\* a second file of customers, named in Russian
FileKlienty == <<"U+041A", "U+043B", "U+0438", "U+0435", "U+043D", "U+0442", "U+044B", ".", "x", "l", "s">>
FileNames == {FileCustomers, FileProducts, FileOrders, FileMisc, FileNotes, FileKlienty}

SeqsUpTo(S, n) == UNION {[1..m -> S] : m \in 0..n}
File(name, readable, rows) == [name |-> name, readable |-> readable, rows |-> rows]
\* the files of at most n rows that can carry a name: unreadable, or
\* readable with rows of the entity type the name routes to
RowsOf(name) ==
    CASE Route(name) = "customers" -> CustomerRows
      [] Route(name) = "products" -> ProductRows
      [] Route(name) = "orders" -> OrderRows
      [] OTHER -> {}
FilesNamed(name, n) ==
    {File(name, TRUE, rows) : rows \in SeqsUpTo(RowsOf(name), n)}
        \cup (IF Route(name) = "unknown" THEN {} ELSE {File(name, FALSE, <<>>)})
RECURSIVE TotalRows(_)
TotalRows(d) == IF d = <<>> THEN 0 ELSE Len(Head(d).rows) + TotalRows(Tail(d))

\* no label is being mapped
\* no row is being validated
NoProbe == [kind |-> "none", row |-> <<>>, done |-> FALSE, errors |-> <<>>]
NoLabel == [table |-> "none", label |-> NaN, code |-> <<>>, mapped |-> 0, recode |-> <<>>]

\* ------------------------------------------------------------------- state
VARIABLES
    dir,               \* the input directory, as os.listdir returns it
    pc,                \* "idle", "loop" (inside run_etl_pipeline's for), "done"
    run,               \* the number of pipeline runs started
    files,             \* run_etl_pipeline's local `files`
    i,                 \* the position of the for loop in files
    customers,         \* the store: table Customer
    products,          \* the store: table Product
    orders,            \* the store: table Order
    active,            \* the orchestrator's session can still execute
    uuid,              \* the next identifier uuid4() or newid() returns
    customer_mapping,  \* ETLOrchestrator.customer_mapping
    stats,             \* ETLOrchestrator.stats
    artifacts,         \* the error reports written so far
    events,            \* the reports and dashboards emitted in this run
    log,               \* history: what each process_*_file call did
    writable,          \* files can be written to ERRORS_DIR and OUTPUT_DIR
    lab,               \* a label on its way through a mapping table
    order_items,       \* the store: table Order_Item, in order of creation
    rounding,          \* how the store brings a value to a column's scale
    tasks,             \* the background tasks the upload endpoint has added
    probe              \* a row on its way through a validator

\* the state outside the pipeline run, and the state of the pipeline run
api == <<lab, order_items, rounding, tasks, probe>>
pipeline == <<dir, pc, run, files, i, customers, products, orders, active, uuid,
              customer_mapping, stats, artifacts, events, log, writable>>
vars == <<dir, pc, run, files, i, customers, products, orders, active, uuid,
          customer_mapping, stats, artifacts, events, log, writable, lab, order_items,
          rounding, tasks, probe>>

\* the state after construction, before any run
InitPipeline ==
    /\ dir = <<>>
    /\ pc = "idle"
    /\ run = 0
    /\ files = <<>>
    /\ i = 1
    /\ customers = {}
    /\ products = {}
    /\ orders = {}
    /\ active = TRUE
    /\ uuid = 1
    /\ customer_mapping = EmptyMap
    /\ stats = EmptyMap
    /\ artifacts = <<>>
    /\ events = <<>>
    /\ log = <<>>

\* whether the output directories take files is the environment's choice
Init ==
    /\ InitPipeline
    /\ writable \in BOOLEAN
    /\ lab = NoLabel
    /\ order_items = <<>>
    /\ rounding = "half_up"
    /\ tasks = <<>>
    /\ probe = NoProbe

\* before the first run: a file appears in the input directory; os.listdir
\* returns the entries in no particular order
DropFile ==
    /\ pc = "idle"
    /\ Len(dir) < MaxFiles
    /\ \E name \in FileNames \ {dir[k].name : k \in 1..Len(dir)} :
          \E f \in FilesNamed(name, MaxRows - TotalRows(dir)) : dir' = Append(dir, f)
    /\ UNCHANGED <<pc, run, files, i, customers, products, orders, active, uuid,
                   customer_mapping, stats, artifacts, events, log, writable>>
    /\ UNCHANGED api

\* run_etl.main / ETLOrchestrator.__init__ / the head of run_etl_pipeline: a
\* new session and orchestrator, the listing, the early return on no files
StartRun ==
    /\ pc \in {"idle", "done"}
    /\ run < MaxRuns
    /\ run' = run + 1
    /\ stats' = EmptyMap
    /\ customer_mapping' = EmptyMap
    /\ active' = TRUE
    /\ events' = <<>>
    /\ files' = list_available_files(dir)
    /\ i' = 1
    /\ pc' = IF files' = <<>> THEN "done" ELSE "loop"
    /\ UNCHANGED <<dir, customers, products, orders, uuid, artifacts, log, writable>>
    /\ UNCHANGED api

\* the state a process_*_file call starts from
CallState ==
    [entry |-> EmptyMap, raised |-> FALSE,
     raw_data |-> <<>>, valid_data |-> <<>>, errors_data |-> <<>>,
     load_errors |-> <<>>, report |-> <<>>, saved_final_report |-> FALSE,
     customers |-> customers, products |-> products, orders |-> orders,
     active |-> active, uuid |-> uuid, customer_mapping |-> customer_mapping,
     writable |-> writable]

\* an iteration whose call lets its exception out of run_etl_pipeline
Processed_propagates(kind, out) ==
    /\ customers' = out.customers
    /\ products' = out.products
    /\ orders' = out.orders
    /\ active' = out.active
    /\ uuid' = out.uuid
    /\ customer_mapping' = out.customer_mapping
    /\ stats' = IF out.raised THEN stats ELSE MapPut(stats, kind, out.entry)
    /\ artifacts' = artifacts \o out.report
    /\ events' = IF out.saved_final_report THEN Append(events, "report") ELSE events
    /\ log' = Append(log, [run |-> run, pos |-> i, kind |-> kind, file |-> files[i],
                           mapping_before |-> customer_mapping,
                           customers_before |-> customers,
                           products_before |-> products,
                           orders_before |-> orders,
                           out |-> out])
    /\ i' = i + 1
    /\ pc' = IF out.raised THEN "aborted" ELSE pc
    /\ UNCHANGED <<dir, run, files, writable>>
    /\ UNCHANGED api
\* one iteration of the for loop that calls process_*_file, with all the
\* call does to the orchestrator and the store
Processed(kind, out) ==
    /\ customers' = out.customers
    /\ products' = out.products
    /\ orders' = out.orders
    /\ active' = out.active
    /\ uuid' = out.uuid
    /\ customer_mapping' = out.customer_mapping
    /\ stats' = MapPut(stats, kind, out.entry)
    /\ artifacts' = artifacts \o out.report
    /\ events' = IF out.saved_final_report THEN Append(events, "report") ELSE events
    /\ log' = Append(log, [run |-> run, pos |-> i, kind |-> kind, file |-> files[i],
                           mapping_before |-> customer_mapping,
                           customers_before |-> customers,
                           products_before |-> products,
                           orders_before |-> orders,
                           out |-> out])
    /\ i' = i + 1
    /\ UNCHANGED <<dir, pc, run, files, writable>>
    /\ UNCHANGED api

ProcessCustomers ==
    /\ pc = "loop" /\ i <= Len(files)
    /\ Route(files[i].name) = "customers"
    /\ Processed("customers", process_customers_file(files[i], CallState))

ProcessProducts ==
    /\ pc = "loop" /\ i <= Len(files)
    /\ Route(files[i].name) = "products"
    /\ Processed("products", process_products_file(files[i], CallState))

ProcessOrders ==
    /\ pc = "loop" /\ i <= Len(files)
    /\ Route(files[i].name) = "orders"
    /\ Processed("orders", process_orders_file(files[i], CallState))

\* the else branch: a warning, nothing else
SkipUnknown ==
    /\ pc = "loop" /\ i <= Len(files)
    /\ Route(files[i].name) = "unknown"
    /\ i' = i + 1
    /\ UNCHANGED <<dir, pc, run, files, customers, products, orders, active, uuid,
                   customer_mapping, stats, artifacts, events, log, writable>>
    /\ UNCHANGED api

\* after the loop: _create_visualizations (nothing when stats is empty),
\* then _save_final_report, then return; each catches and logs its own
\* failure to write
FinishRun ==
    /\ pc = "loop" /\ i > Len(files)
    /\ events' = (IF DOMAIN stats # {} /\ writable
                  THEN Append(events, "dashboard") ELSE events)
                    \o (IF writable THEN <<"report">> ELSE <<>>)
    /\ pc' = "done"
    /\ UNCHANGED <<dir, run, files, i, customers, products, orders, active, uuid,
                   customer_mapping, stats, artifacts, log, writable>>
    /\ UNCHANGED api

Next ==
    \/ DropFile
    \/ StartRun
    \/ ProcessCustomers
    \/ ProcessProducts
    \/ ProcessOrders
    \/ SkipUnknown
    \/ FinishRun

Spec == Init /\ [][Next]_vars


\* -------------------------------------------------------------- order items
\* Decimal values are counted in thousandths; a Numeric(p, 2) column keeps
\* hundredths, so the store brings what it is given to a multiple of 10.
\* Which way it rounds is the database's choice.
RoundingModes == {"half_up", "half_even", "down"}
Quantize(mode, v) ==
    LET q == v \div 10
        r == v % 10
    IN  CASE mode = "down" -> q * 10
          [] mode = "half_up" -> (IF r >= 5 THEN q + 1 ELSE q) * 10
          [] OTHER -> (IF r > 5 \/ (r = 5 /\ q % 2 = 1) THEN q + 1 ELSE q) * 10

\* the quantities and unit prices a request can carry: schemas.OrderItemBase
\* asks for quantity > 0 and price_per_unit >= 0 and nothing else
Quantities == {1, 3}
Prices == {19990, 19995, 5}
OrderItemCreates == [quantity : Quantities, price_per_unit : Prices]
\* order_item_update.model_dump(exclude_unset=True)
OrderItemUpdates ==
    UNION {[quantity : Quantities],
           [price_per_unit : Prices],
           [quantity : Quantities, price_per_unit : Prices]}

\* db.commit() and db.refresh(): the row as the columns hold it
Stored(mode, item) ==
    [quantity |-> item.quantity,
     price_per_unit |-> Quantize(mode, item.price_per_unit),
     total_price |-> Quantize(mode, item.total_price)]

\* crud.create_order_item
create_order_item(items, order_item, mode) ==
    LET total_price == order_item.quantity * order_item.price_per_unit
        db_order_item == [quantity |-> order_item.quantity,
                          price_per_unit |-> order_item.price_per_unit,
                          total_price |-> total_price]
    IN  Append(items, Stored(mode, db_order_item))

\* crud.update_order_item
update_order_item(items, order_item_id, update_data, mode) ==
    IF order_item_id \notin DOMAIN items THEN items
    ELSE LET db_order_item == items[order_item_id]
             set == [field \in {"quantity", "price_per_unit"} |->
                        IF field \in DOMAIN update_data
                        THEN update_data[field] ELSE db_order_item[field]]
             recalculated == [quantity |-> set.quantity,
                              price_per_unit |-> set.price_per_unit,
                              total_price |-> set.quantity * set.price_per_unit]
         IN  [items EXCEPT ![order_item_id] = Stored(mode, recalculated)]

InitItems ==
    /\ InitPipeline
    /\ writable = TRUE
    /\ lab = NoLabel
    /\ order_items = <<>>
    /\ rounding \in RoundingModes
    /\ tasks = <<>>
    /\ probe = NoProbe

CreateOrderItem ==
    /\ Len(order_items) < MaxItems
    /\ \E order_item \in OrderItemCreates :
          order_items' = create_order_item(order_items, order_item, rounding)
    /\ UNCHANGED <<pipeline, lab, rounding, tasks, probe>>

UpdateOrderItem ==
    /\ \E order_item_id \in 1..MaxItems, update_data \in OrderItemUpdates :
          order_items' = update_order_item(order_items, order_item_id, update_data, rounding)
    /\ UNCHANGED <<pipeline, lab, rounding, tasks, probe>>

NextItems ==
    \/ CreateOrderItem
    \/ UpdateOrderItem

SpecItems == InitItems /\ [][NextItems]_vars

\* ------------------------------------------------------------ label mapping
\* the labels a category or payment-method column can hold: every key of
\* the table, as written, in lower case and in lower case between blanks,
\* labels the table does not have, and the empty cell
TableKeys(table) == {table[k][1] : k \in DOMAIN table}
UnknownLabels ==
    {<<"w", "i", "d", "g", "e", "t", "s">>, <<"W", "I", "D", "G", "E", "T", "S">>,
     <<"B", "i", "t", "c", "o", "i", "n">>, <<" ">>, <<>>}
LabelsOf(table) ==
    UNION {{Str(key), Str(Lower(key)), Str(<<" ">> \o Lower(key) \o <<" ">>)} :
             key \in TableKeys(table)}
        \cup {Str(u) : u \in UnknownLabels} \cup {NaN}
LabelCase(table, label) ==
    [table |-> table, label |-> label, code |-> <<>>, mapped |-> 0, recode |-> <<>>]

InitLabels ==
    /\ InitPipeline
    /\ writable = TRUE
    /\ order_items = <<>>
    /\ rounding = "half_up"
    /\ tasks = <<>>
    /\ probe = NoProbe
    /\ lab \in {LabelCase("category", l) : l \in LabelsOf(PRODUCT_CATEGORY_MAPPING)}
           \cup {LabelCase("payment_method", l) : l \in LabelsOf(PAYMENT_METHOD_MAPPING)}

\* the label, then the code it was given, goes through the transformer
Mapped(out) ==
    IF lab.mapped = 0
    THEN [lab EXCEPT !.code = out, !.mapped = 1]
    ELSE [lab EXCEPT !.recode = out, !.mapped = 2]
LabelCell == IF lab.mapped = 0 THEN lab.label ELSE Str(lab.code)

\* _transform_valid_product on a row with this category
MapCategory ==
    /\ lab.table = "category" /\ lab.mapped < 2
    /\ lab' = Mapped(_transform_valid_product(
                        ProductRow(Str(<<"s", "1">>), Num(150), LabelCell), 1).category_code)
    /\ UNCHANGED <<pipeline, order_items, rounding, tasks, probe>>

\* _transform_valid_order on a row with this payment method
MapPaymentMethod ==
    /\ lab.table = "payment_method" /\ lab.mapped < 2
    /\ lab' = Mapped(_transform_valid_order(
                        OrderRow(EmailA, LabelCell, Num(500)),
                        MapPut(EmptyMap, EmailA.s, 1), 1).payment_method_code)
    /\ UNCHANGED <<pipeline, order_items, rounding, tasks, probe>>

NextLabels ==
    \/ MapCategory
    \/ MapPaymentMethod

SpecLabels == InitLabels /\ [][NextLabels]_vars

\* --------------------------------------------------------------- order status
\* an order row with a status column goes through the order transformer,
\* and the row it returns through the order loader; the store has the
\* row's customer
StatusCustomer ==
    [customer_id |-> 1, full_name |-> NameAl.s, email |-> EmailA.s,
     phone |-> Phone1.s, address |-> AddrMoSt.s]
StatusRow(label) ==
    OrderRow(EmailA, Str(<<"c", "a", "s", "h">>), Num(500)) @@ [status |-> label]
\* the code of a status identifier in the store's table
StatusCodeOf(status_id) ==
    Dictionary_OrderStatus[CHOOSE k \in DOMAIN Dictionary_OrderStatus :
                              Dictionary_OrderStatus[k][2] = status_id][1]

InitStatus ==
    /\ InitPipeline
    /\ writable = TRUE
    /\ order_items = <<>>
    /\ rounding = "half_up"
    /\ tasks = <<>>
    /\ probe = NoProbe
    /\ lab \in {LabelCase("status", l) : l \in LabelsOf(ORDER_STATUS_MAPPING)}

\* _transform_valid_order on the row
TransformStatus ==
    /\ lab.table = "status" /\ lab.mapped = 0
    /\ lab' = [lab EXCEPT
                 !.code = _transform_valid_order(StatusRow(lab.label),
                              MapPut(EmptyMap, EmailA.s, 1), 2).order_status_code,
                 !.mapped = 1]
    /\ UNCHANGED <<pipeline, order_items, rounding, tasks, probe>>

\* load_order_data on the transformed row: the status of the order stored
LoadStatus ==
    /\ lab.table = "status" /\ lab.mapped = 1
    /\ LET valid_row == [_transform_valid_order(StatusRow(lab.label),
                              MapPut(EmptyMap, EmailA.s, 1), 2)
                            EXCEPT !.order_status_code = lab.code]
           l == load_order_data(<<valid_row>>, {}, {StatusCustomer}, TRUE, 3)
       IN  /\ Cardinality(l.orders) = 1
           /\ lab' = [lab EXCEPT
                        !.recode = StatusCodeOf((CHOOSE o \in l.orders : TRUE).order_status_id),
                        !.mapped = 2]
    /\ UNCHANGED <<pipeline, order_items, rounding, tasks, probe>>

NextStatus ==
    \/ TransformStatus
    \/ LoadStatus

SpecStatus == InitStatus /\ [][NextStatus]_vars
\* ----------------------------------------------------------- numeric fields
\* the cells a weight, price or total column can hold after the file is
\* read: numbers (in hundredths), the empty cell, and text
NumericCells ==
    {Num(150), Num(0), Num(-100), NaN,
     Str(<<"a", "b", "c">>), Str(<<"1", "2", ".", "5">>), Str(<<"-", "1">>),
     Str(<<" ", "7", " ">>)}
ProductProbe(weight, price) ==
    [kind |-> "products",
     row |-> [ProductRow(Str(<<"s", "1">>), weight, Str(<<"b", "o", "o", "k", "s">>))
                 EXCEPT !.price = price],
     done |-> FALSE, errors |-> <<>>]
OrderProbe(total_amount) ==
    [kind |-> "orders",
     row |-> OrderRow(EmailA, Str(<<"c", "a", "s", "h">>), total_amount),
     done |-> FALSE, errors |-> <<>>]

InitNumeric ==
    /\ InitPipeline
    /\ writable = TRUE
    /\ lab = NoLabel
    /\ order_items = <<>>
    /\ rounding = "half_up"
    /\ tasks = <<>>
    /\ probe \in {ProductProbe(w, p) : w \in NumericCells, p \in NumericCells}
                    \cup {OrderProbe(t) : t \in NumericCells}

\* ProductValidator.validate_product_row on the row
ValidateProduct ==
    /\ probe.kind = "products" /\ ~probe.done
    /\ probe' = [probe EXCEPT !.errors = validate_product_row(probe.row), !.done = TRUE]
    /\ UNCHANGED <<pipeline, lab, order_items, rounding, tasks>>

\* OrderValidator.validate_order_row on the row
ValidateOrder ==
    /\ probe.kind = "orders" /\ ~probe.done
    /\ probe' = [probe EXCEPT !.errors = validate_order_row(probe.row), !.done = TRUE]
    /\ UNCHANGED <<pipeline, lab, order_items, rounding, tasks>>

NextNumeric ==
    \/ ValidateProduct
    \/ ValidateOrder

SpecNumeric == InitNumeric /\ [][NextNumeric]_vars
\* ------------------------------------------------------- the upload endpoint
\* main.upload_file and main.process_uploaded_file. A task is "queued" once
\* add_task has been called, "running" while process_uploaded_file executes
\* in a worker thread of the server, "closed" after db.close()
InputDir == <<"d", "a", "t", "a", "/", "i", "n", "p", "u", "t", "/">>
allowed_extensions == <<ExtCsv, ExtXlsx, ExtXls>>
FileTypes == {"auto", "customers", "products", "orders"}
UploadNames == {FileCustomers, FileProducts, FileOrders, FileMisc, FileNotes}
\* str(uuid.uuid4()): hexadecimal digits, here the digit of the counter
FileId(n) == <<DigitSeq[(n % 10) + 1]>>
UploadPath(file_id, filename) == InputDir \o file_id \o <<"_">> \o filename
\* the rows a client puts in a file it submits as file_type
UploadRows(file_type, filename) ==
    CASE file_type = "customers" -> CustomerRows
      [] file_type = "products" -> ProductRows
      [] file_type = "orders" -> OrderRows
      [] OTHER -> RowsOf(filename)

\* the if/elif chain of process_uploaded_file: the entity type whose
\* process_*_file is called, "none" when no branch calls one
UploadRoute(file_path, file_type) ==
    LET path_lower == Lower(file_path) IN
    IF file_type = "customers" \/ Contains(path_lower, KwCustomer)
    THEN "customers"
    ELSE IF file_type = "products" \/ Contains(path_lower, KwProduct)
    THEN "products"
    ELSE IF file_type = "orders" \/ Contains(path_lower, KwOrder)
    THEN "orders"
    ELSE IF Contains(path_lower, KwCustomer) THEN "customers"
    ELSE IF Contains(path_lower, KwProduct) THEN "products"
    ELSE IF Contains(path_lower, KwOrder) THEN "orders"
    ELSE "none"

InitUpload ==
    /\ InitPipeline
    /\ writable = TRUE
    /\ lab = NoLabel
    /\ order_items = <<>>
    /\ rounding = "half_up"
    /\ tasks = <<>>
    /\ probe = NoProbe

\* upload_file: the extension check (400 otherwise), the file saved under
\* data/input, the background task added
UploadFile ==
    /\ Len(tasks) < MaxUploads
    /\ \E filename \in UploadNames, file_type \in FileTypes :
          /\ \E k \in 1..Len(allowed_extensions) :
                EndsWith(Lower(filename), allowed_extensions[k])
          /\ \E rows \in SeqsUpTo(UploadRows(file_type, filename), MaxUploadRows) :
                LET file_path == UploadPath(FileId(uuid), filename)
                IN  tasks' = Append(tasks,
                        [file_path |-> file_path, file_type |-> file_type,
                         filename |-> filename,
                         file |-> File(file_path, TRUE, rows),
                         pc |-> "queued", kind |-> "none", entry |-> EmptyMap])
    /\ uuid' = uuid + 1
    /\ UNCHANGED <<dir, pc, run, files, i, customers, products, orders, active,
                   customer_mapping, stats, artifacts, events, log, writable,
                   lab, order_items, rounding, probe>>

\* the server hands the task to a worker thread once the response is sent:
\* db = SessionLocal(), ETLOrchestrator(db), the branch chosen
TaskStart ==
    /\ \E t \in 1..Len(tasks) :
          /\ tasks[t].pc = "queued"
          /\ tasks' = [tasks EXCEPT ![t].pc = "running",
                          ![t].kind = UploadRoute(tasks[t].file_path, tasks[t].file_type)]
    /\ UNCHANGED <<pipeline, lab, order_items, rounding, probe>>

\* the state a task's process_*_file call starts from: its own session and
\* orchestrator, the shared store
TaskState ==
    [CallState EXCEPT !.active = TRUE, !.customer_mapping = EmptyMap]
TaskOut(t) ==
    CASE tasks[t].kind = "customers" -> process_customers_file(tasks[t].file, TaskState)
      [] tasks[t].kind = "products" -> process_products_file(tasks[t].file, TaskState)
      [] tasks[t].kind = "orders" -> process_orders_file(tasks[t].file, TaskState)
      [] OTHER -> TaskState

\* what the call leaves in the store, then db.close()
TaskDone(t, out) ==
    /\ customers' = out.customers
    /\ products' = out.products
    /\ orders' = out.orders
    /\ uuid' = out.uuid
    /\ artifacts' = artifacts \o out.report
    /\ tasks' = [tasks EXCEPT ![t].pc = "closed", ![t].entry = out.entry]
    /\ UNCHANGED <<dir, pc, run, files, i, active, customer_mapping, stats, events,
                   log, writable, lab, order_items, rounding, probe>>

\* the rest of process_uploaded_file: the process_*_file call against the
\* store
TaskFinish ==
    \E t \in 1..Len(tasks) :
        /\ tasks[t].pc = "running"
        /\ TaskDone(t, TaskOut(t))

NextUpload ==
    \/ UploadFile
    \/ TaskStart
    \/ TaskFinish

SpecUpload == InitUpload /\ [][NextUpload]_vars

\* ===================================================================== claims
\* the calls of process_<kind>_file recorded so far
Calls(kind) == {k \in 1..Len(log) : log[k].kind = kind}
Codes(errors) == {errors[k].code : k \in 1..Len(errors)}
\* two natural keys are the same key when they agree up to surrounding
\* blanks and letter case
FoldChar(c) ==
    IF \E k \in DOMAIN AllUpper : AllUpper[k] = c
    THEN AllLower[CHOOSE k \in DOMAIN AllUpper : AllUpper[k] = c]
    ELSE c
Fold(s) == [k \in 1..Len(Strip(s)) |-> FoldChar(Strip(s)[k])]
SameKey(a, b) == Fold(a) = Fold(b)
\* the rows of a valid set that the store can take one after the other:
\* the schema accepts each, and no two share an email or a phone
Loadable(valid_data) ==
    /\ \A k \in 1..Len(valid_data) :
          CustomerCreate(valid_data[k].full_name, valid_data[k].email,
                         valid_data[k].phone, valid_data[k].address)
    /\ \A j, k \in 1..Len(valid_data) :
          j # k => /\ ~SameKey(valid_data[j].email, valid_data[k].email)
                   /\ valid_data[j].phone # valid_data[k].phone

\* C1: every statistics entry the orchestrator records satisfies
\* valid_records + error_records = total_processed.
C1_Conservation ==
    \A kind \in DOMAIN stats :
        Get(stats[kind], "valid_records", 0) + Get(stats[kind], "error_records", 0)
            = Get(stats[kind], "total_processed", -1)

\* the same customers file, all of whose rows are valid, processed in run 1
\* against an empty store (call a) and again in run 2 (call b), no other
\* file having changed the customers in between
TwiceLoaded(a, b) ==
    /\ a \in Calls("customers") /\ b \in Calls("customers")
    /\ log[a].run = 1 /\ log[b].run = 2
    /\ log[a].file = log[b].file
    /\ log[a].file.readable
    /\ log[a].customers_before = {}
    /\ log[b].customers_before = log[a].out.customers
    /\ Len(log[a].out.valid_data) = Len(log[a].file.rows)
IdempotentCounts(a, b) ==
    LET N == Len(log[a].file.rows) IN
    /\ Get(log[a].out.entry, "customers_created", -1) = N
    /\ Get(log[a].out.entry, "customers_skipped", -1) = 0
    /\ Get(log[b].out.entry, "customers_created", -1) = 0
    /\ Get(log[b].out.entry, "customers_skipped", -1) = N
    /\ log[b].out.customers = log[a].out.customers

\* C2 as stated: a customers file of N valid rows loaded twice against an
\* initially empty store gives created = N, skipped = 0 and then
\* created = 0, skipped = N, with the same customers in the store.
C2_IdempotentAnyValidFile ==
    \A a, b \in 1..Len(log) : TwiceLoaded(a, b) => IdempotentCounts(a, b)

\* C2 amended: the same, for a file whose N valid rows the store's schema
\* accepts and which have pairwise distinct normalized emails and pairwise
\* distinct phones.
C2_IdempotentDistinctKeys ==
    \A a, b \in 1..Len(log) :
        (TwiceLoaded(a, b) /\ Loadable(log[a].out.valid_data))
            => IdempotentCounts(a, b)
C2_Witness ==
    \E a, b \in 1..Len(log) :
        /\ TwiceLoaded(a, b) /\ Loadable(log[a].out.valid_data)
        /\ Len(log[a].file.rows) >= 2

\* C3: the store holds at most one customer per normalized email and at
\* most one product per normalized SKU.
C3_NaturalKeyUnique ==
    /\ \A c1, c2 \in customers : SameKey(c1.email, c2.email) => c1 = c2
    /\ \A p1, p2 \in products : SameKey(p1.sku, p2.sku) => p1 = p2
\* a customers file that spells a stored email differently was loaded in
\* the second run, and a products file that repeats a SKU in another
\* spelling was loaded
C3_Witness ==
    /\ \E a \in Calls("customers") :
          /\ log[a].run = 2
          /\ \E k \in 1..Len(log[a].file.rows), c \in customers :
                /\ ~IsNa(log[a].file.rows[k].email)
                /\ log[a].file.rows[k].email.s # c.email
                /\ SameKey(log[a].file.rows[k].email.s, c.email)
    /\ \E b \in Calls("products") :
          /\ products # {}
          /\ \E j, k \in 1..Len(log[b].file.rows) :
                /\ j # k
                /\ log[b].file.rows[j].sku.s # log[b].file.rows[k].sku.s
                /\ SameKey(log[b].file.rows[j].sku.s, log[b].file.rows[k].sku.s)

\* the rows of an orders file's raw data that pass the structural validator
\* and whose normalized customer email is / is not a key of the map
Structural(r) == validate_order_row(r.row) = <<>>
OrderEmail(r) == Lower(clean_text(r.row.customer_email).s)
Gated(e) ==
    {k \in 1..Len(e.out.raw_data) :
        /\ Structural(e.out.raw_data[k])
        /\ OrderEmail(e.out.raw_data[k]) \notin DOMAIN e.mapping_before}
Admitted(e) ==
    {k \in 1..Len(e.out.raw_data) :
        /\ Structural(e.out.raw_data[k])
        /\ OrderEmail(e.out.raw_data[k]) \in DOMAIN e.mapping_before}

\* C4: an order row that passes the structural validator and whose
\* normalized customer email is not in the Identity Map is in the rejected
\* set with a "customer not found" violation; only the rows whose email is
\* in the map reach the loader, and every order created belongs to a
\* customer of the map.
C4_ReferentialGate ==
    \A a \in Calls("orders") :
        LET e == log[a] IN
        /\ \A k \in Gated(e) :
              \E j \in 1..Len(e.out.errors_data) :
                  /\ e.out.errors_data[j]._original_index = e.out.raw_data[k].index
                  /\ e.out.errors_data[j].data = e.out.raw_data[k].row
                  /\ "customer_not_found" \in Codes(e.out.errors_data[j]._errors)
        /\ Len(e.out.valid_data) = Cardinality(Admitted(e))
        /\ \A o \in e.out.orders \ e.orders_before :
              o.customer_id \in Range(e.mapping_before)
\* one orders file with a gated row and a row that became an order
C4_Witness ==
    \E a \in Calls("orders") :
        /\ Gated(log[a]) # {}
        /\ log[a].out.orders # log[a].orders_before

\* C5: within one run over a directory that holds a customers file and an
\* orders file (both with rows), the orders file is never processed before
\* the customers file.
C5_CustomersBeforeOrders ==
    \A a, b \in 1..Len(log) :
        (/\ a < b /\ log[a].run = log[b].run
         /\ log[a].out.raw_data # <<>> /\ log[b].out.raw_data # <<>>)
            => ~(log[a].kind = "orders" /\ log[b].kind = "customers")

\* the raw row a valid row was made from, by entity type
MadeFrom(kind, v, row) ==
    CASE kind = "customers" ->
            /\ v.email = Fold(row.email.s) /\ v.phone = Strip(row.phone.s)
      [] kind = "products" ->
            /\ SameKey(v.sku, row.sku.s) /\ v.weight.v = row.weight.n
            /\ SameKey(v.category_code,
                        TableGet(PRODUCT_CATEGORY_MAPPING, Upper(Strip(row.category.s)),
                                 row.category.s))
      [] OTHER ->
            /\ v.total_amount.v = row.total_amount.n
            /\ SameKey(v.payment_method_code,
                        TableGet(PAYMENT_METHOD_MAPPING, Upper(Strip(row.payment_method.s)),
                                 row.payment_method.s))
RejectedIndexes(out) ==
    {out.errors_data[j]._original_index : j \in 1..Len(out.errors_data)}
Kept(out) ==
    SelectSeq(out.raw_data, LAMBDA r : r.index \notin RejectedIndexes(out))

\* C6: the transformer's valid set and rejected set partition the raw
\* records: every raw row is either rejected (once, under its own index) or
\* valid (once, in file order), never both and never neither.
C6_Partition ==
    \A a \in 1..Len(log) :
        LET out == log[a].out IN
        /\ Len(out.valid_data) + Len(out.errors_data) = Len(out.raw_data)
        /\ \A j, k \in 1..Len(out.errors_data) :
              out.errors_data[j]._original_index = out.errors_data[k]._original_index
                  => j = k
        /\ RejectedIndexes(out) \subseteq {out.raw_data[k].index : k \in 1..Len(out.raw_data)}
        /\ Len(Kept(out)) = Len(out.valid_data)
        /\ \A k \in 1..Len(out.valid_data) :
              k <= Len(Kept(out)) => MadeFrom(log[a].kind, out.valid_data[k], Kept(out)[k].row)
\* two files of different entity types, each with a valid or a rejected
\* row, one of them with both
C6_Witness ==
    \E a, b \in 1..Len(log) :
        /\ log[a].kind # log[b].kind
        /\ log[a].out.valid_data # <<>> /\ log[a].out.errors_data # <<>>
        /\ log[b].out.raw_data # <<>>

\* the positions of the current run's listing that have an entity type
Routed == {k \in 1..Len(files) : Route(files[k].name) # "unknown"}
ProcessedNow == {log[a].pos : a \in {b \in 1..Len(log) : log[b].run = run}}

\* C7: a process_*_file call in which extraction or loading raises records
\* an entry with total_processed = 0 for the file's entity type, and the
\* run goes on: when the run is over, every discovered file with an entity
\* type has been processed.
C7_FileFailureIsolated ==
    /\ \A a \in 1..Len(log) :
          log[a].out.raised =>
              /\ Get(log[a].out.entry, "total_processed", -1) = 0
              /\ "error" \in DOMAIN log[a].out.entry
    /\ (log # <<>> /\ log[Len(log)].run = run /\ i = log[Len(log)].pos + 1)
          => (/\ log[Len(log)].kind \in DOMAIN stats
              /\ stats[log[Len(log)].kind] = log[Len(log)].out.entry)
    /\ (pc = "loop" /\ run >= 1) => ProcessedNow = {k \in Routed : k < i}
    /\ (pc = "done" /\ run >= 1) => ProcessedNow = Routed
\* a run is over in which the first file failed as a whole and the second
\* file was processed without failing
C7_Witness ==
    /\ pc = "done"
    /\ \E a, b \in 1..Len(log) :
          /\ log[a].run = run /\ log[b].run = run
          /\ log[a].pos < log[b].pos
          /\ log[a].out.raised
          /\ ~log[b].out.raised /\ log[b].out.raw_data # <<>>

\* C8: when the store rejects the write of a customer row, the failure is
\* in the file's errors list, the customers stored before it stay, and the
\* rows after it are processed as if it had not failed: none of them fails
\* because of the rejected row, and the load of the file completes.
C8_RowFailureIsolated ==
    \A a \in Calls("customers") :
        "IntegrityError" \in Codes(log[a].out.load_errors) =>
            /\ "IntegrityError" \in Codes(Get(log[a].out.entry, "errors", <<>>))
            /\ log[a].customers_before \subseteq log[a].out.customers
            /\ "PendingRollbackError" \notin Codes(log[a].out.load_errors)
            /\ ~log[a].out.raised

\* C9: after the customer loader has finished a file, every row of the
\* valid set whose customer is in the store (created now or there before)
\* has its normalized email mapped to that customer's identifier, and the
\* orchestrator holds this map.
C9_IdentityMapComplete ==
    /\ \A a \in Calls("customers") :
          LET out == log[a].out IN
          (log[a].file.readable /\ ~out.raised) =>
              \A k \in 1..Len(out.valid_data) :
                  LET email == Fold(out.valid_data[k].email) IN
                  (\E c \in out.customers : c.email = email) =>
                      /\ email \in DOMAIN out.customer_mapping
                      /\ \E c \in out.customers :
                            /\ c.email = email
                            /\ c.customer_id = out.customer_mapping[email]
    /\ (log # <<>> /\ log[Len(log)].run = run /\ i = log[Len(log)].pos + 1)
          => customer_mapping = log[Len(log)].out.customer_mapping
\* a customers file was loaded with a customer created, and loaded again
\* with that customer in the store before the file
C9_Witness ==
    \E a, b \in Calls("customers") :
        /\ ~log[a].out.raised
        /\ Get(log[a].out.entry, "customers_created", 0) >= 1
        /\ ~log[b].out.raised
        /\ Get(log[b].out.entry, "customers_skipped", 0) >= 1
        /\ \E k \in 1..Len(log[b].out.valid_data), c \in log[b].customers_before :
              /\ c.email = log[b].out.valid_data[k].email
              /\ log[b].out.customer_mapping[c.email] = c.customer_id

\* C10: a customers file of N rows, K of which fail validation, whose other
\* rows are not in the store and can all be stored, is recorded with
\* total_processed = N, valid = N - K, rejected = K, created = N - K,
\* skipped = 0, and its error artifact holds exactly the K rejected rows,
\* each with its violations.
C10_EndToEndCounts ==
    \A a \in Calls("customers") :
        LET out == log[a].out
            N == Len(log[a].file.rows)
            K == Len(out.errors_data)
        IN  (/\ log[a].file.readable
             /\ out.writable
             /\ log[a].customers_before = {}
             /\ Loadable(out.valid_data))
            => /\ Get(out.entry, "total_processed", -1) = N
               /\ Get(out.entry, "valid_records", -1) = N - K
               /\ Get(out.entry, "error_records", -1) = K
               /\ Get(out.entry, "customers_created", -1) = N - K
               /\ Get(out.entry, "customers_skipped", -1) = 0
               /\ K > 0 => /\ Len(out.report) = 1
                            /\ out.report[1].rows = out.errors_data
                            /\ \A j \in 1..K : out.errors_data[j]._errors # <<>>
               /\ K = 0 => out.report = <<>>

\* a field is missing when the cell is empty or holds only blanks
Blank(cell) == IsNa(cell) \/ \A k \in 1..Len(cell.s) : cell.s[k] \in Whitespace
MissingFields(row) == SelectSeq(CustomerRequiredFields, LAMBDA f : Blank(row[f]))
\* the violations recorded for the raw row at position k of a call
ViolationsOf(out, k) ==
    LET j == CHOOSE j \in 1..Len(out.errors_data) :
                 out.errors_data[j]._original_index = out.raw_data[k].index
    IN  out.errors_data[j]._errors
IsRejected(out, k) ==
    \E j \in 1..Len(out.errors_data) :
        out.errors_data[j]._original_index = out.raw_data[k].index

\* C11: a customer row with missing required fields is rejected with
\* exactly one "missing required fields" violation that names every
\* missing field, in the order of the required fields, and the email and
\* phone checks are still made: their violations are there exactly when
\* the email or the phone does not have the format.
C11_NonShortCircuit ==
    \A a \in Calls("customers") :
        LET out == log[a].out IN
        \A k \in 1..Len(out.raw_data) :
            LET row == out.raw_data[k].row IN
            MissingFields(row) # <<>> =>
                /\ IsRejected(out, k)
                /\ LET v == ViolationsOf(out, k) IN
                   /\ Cardinality({n \in 1..Len(v) :
                            v[n].code = "missing_required_fields"}) = 1
                   /\ \E n \in 1..Len(v) :
                         /\ v[n].code = "missing_required_fields"
                         /\ v[n].arg = MissingFields(row)
                   /\ ("bad_email_format" \in Codes(v))
                         <=> ~validate_email(clean_text(row.email))
                   /\ ("bad_phone_format" \in Codes(v))
                         <=> ~validate_phone(clean_text(row.phone))
\* a customers file with a row that misses both email and phone and a row
\* that misses only the email was transformed
C11_Witness ==
    \E a \in Calls("customers") :
        \E j, k \in 1..Len(log[a].out.raw_data) :
            /\ MissingFields(log[a].out.raw_data[j].row) = <<"email", "phone">>
            /\ MissingFields(log[a].out.raw_data[k].row) = <<"email">>
            /\ IsRejected(log[a].out, j) /\ IsRejected(log[a].out, k)

\* the table a label goes through, and the label cleaned and upper-cased
TableOf(l) ==
    IF l.table = "category" THEN PRODUCT_CATEGORY_MAPPING ELSE PAYMENT_METHOD_MAPPING
UpperLabel(l) == Upper(clean_text(l.label).s)

\* C12: the canonical code of a label is the table entry of the upper-cased
\* (cleaned) label when the table has one and the upper-cased label itself
\* otherwise, and mapping the code again gives the same code.
C12_LabelMapping ==
    /\ lab.mapped >= 1 =>
          LET table == TableOf(lab)
              U == UpperLabel(lab)
          IN  IF U \in TableKeys(table)
              THEN \E k \in DOMAIN table : table[k][1] = U /\ lab.code = table[k][2]
              ELSE lab.code = U
    /\ lab.mapped = 2 => lab.recode = lab.code
\* the category label "widgets", which the table does not have, was mapped
\* to "WIDGETS" and mapped again
C12_Witness ==
    /\ lab.table = "category" /\ lab.mapped = 2
    /\ lab.label = Str(<<"w", "i", "d", "g", "e", "t", "s">>)
    /\ lab.code = <<"W", "I", "D", "G", "E", "T", "S">>

\* C13: every stored order line has total_price = quantity x
\* price_per_unit, exactly.
C13_ExactLineTotal ==
    \A k \in 1..Len(order_items) :
        order_items[k].total_price
            = order_items[k].quantity * order_items[k].price_per_unit

\* every discovered file with an entity type has been attempted exactly
\* once in the current run, and the statistics returned have its entry
AttemptedOnce ==
    \A k \in Routed :
        /\ Cardinality({a \in 1..Len(log) : log[a].run = run /\ log[a].pos = k}) = 1
        /\ Route(files[k].name) \in DOMAIN stats

\* C14: whatever fails (rows, whole files, the error report, the final
\* report, the dashboard), a run is never left by an exception: it is
\* either in its loop over the files or at its return, and at its return
\* every discovered file has been attempted exactly once.
C14_NoAbort ==
    /\ pc \in {"idle", "loop", "done"}
    /\ pc = "loop" => i \in 1..(Len(files) + 1)
    /\ pc = "done" /\ run >= 1 => i = Len(files) + 1 /\ AttemptedOnce
\* a run is over in which nothing could be written, the error report of one
\* file failed, and a row of another file was refused by the store
C14_Witness ==
    /\ pc = "done" /\ ~writable
    /\ \E a, b \in 1..Len(log) :
          /\ log[a].run = run /\ log[b].run = run /\ a # b
          /\ log[a].out.raised /\ log[a].out.errors_data # <<>> /\ log[a].out.active
          /\ log[b].out.load_errors # <<>>

\* the tasks whose process_uploaded_file is executing
Running == {t \in 1..Len(tasks) : tasks[t].pc = "running"}

\* C15: at any time at most one process_*_file call is running against the
\* store, also when several files are submitted through the upload endpoint.
C15_OneLoaderAtATime == Cardinality(Running) <= 1

\* C16: a file submitted with the hint customers, products or orders is
\* processed as that entity type whatever its filename; the hint auto routes
\* by filename keyword.
C16_RoutingByHint ==
    \A t \in 1..Len(tasks) :
        tasks[t].pc # "queued" =>
            IF tasks[t].file_type = "auto"
            THEN tasks[t].kind = (IF Route(tasks[t].filename) = "unknown"
                                  THEN "none" ELSE Route(tasks[t].filename))
            ELSE tasks[t].kind = tasks[t].file_type

\* the sum of a figure over the process_*_file calls of the current run
RECURSIVE SumCalls(_, _)
SumCalls(F(_), k) ==
    IF k = 0 THEN 0
    ELSE (IF log[k].run = run THEN F(log[k].out) ELSE 0) + SumCalls(F, k - 1)
EntryFigure(out, key) == Get(out.entry, key, 0)
Created(out) ==
    EntryFigure(out, "customers_created") + EntryFigure(out, "products_created")
        + EntryFigure(out, "orders_created")

\* C17: at the end of a run the summary's total_processed, total_valid,
\* total_errors and total_created are the sums of the figures of every file
\* processed in the run, also when two files have the same entity type.
C17_StatsAccumulate ==
    pc = "done" /\ run >= 1 =>
        LET summary == _generate_summary(stats) IN
        /\ summary.total_processed
              = SumCalls(LAMBDA out : EntryFigure(out, "total_processed"), Len(log))
        /\ summary.total_valid
              = SumCalls(LAMBDA out : EntryFigure(out, "valid_records"), Len(log))
        /\ summary.total_errors
              = SumCalls(LAMBDA out : EntryFigure(out, "error_records"), Len(log))
        /\ summary.total_created = SumCalls(Created, Len(log))

\* C18: at the end of a run the summary's success_rate is the number of
\* valid records over the number of raw records of the run, times 100, and
\* 0 when there were none; so it is below 100 when a row was rejected.
C18_SuccessRate ==
    pc = "done" /\ run >= 1 =>
        LET summary == _generate_summary(stats)
            raw == SumCalls(LAMBDA out : Len(out.raw_data), Len(log))
            valid == SumCalls(LAMBDA out : Len(out.valid_data), Len(log))
            rejected == SumCalls(LAMBDA out : Len(out.errors_data), Len(log))
        IN  /\ summary.success_rate = (IF raw > 0 THEN Round2(valid * 100, raw) ELSE 0)
            /\ rejected > 0 => summary.success_rate < 10000

\* C19: a rejected-row record holds the values of the row as they are in
\* the file, its violations and its position in the file, and the error
\* artifact holds the record as the transformer made it.
C19_RejectedRowIsRaw ==
    \A a \in 1..Len(log) :
        LET out == log[a].out
            rows == log[a].file.rows
        IN  /\ \A j \in 1..Len(out.errors_data) :
                  LET e == out.errors_data[j] IN
                  /\ e._original_index + 1 \in 1..Len(rows)
                  /\ e.data = rows[e._original_index + 1]
                  /\ e._errors # <<>>
            /\ out.report # <<>> => out.report[1].rows = out.errors_data

\* C20: when rows of a file are rejected at load time and the error
\* directory can be written, the file's error artifact exists and counts
\* them together with the rows rejected by validation and transformation.
C20_ArtifactCoversLoad ==
    \A a \in 1..Len(log) :
        LET out == log[a].out IN
        out.load_errors # <<>> /\ ~out.raised /\ out.writable =>
            /\ out.report # <<>>
            /\ out.report[1].total_errors = Len(out.errors_data) + Len(out.load_errors)

\* the rows of a valid set whose natural key, as the loader normalizes it,
\* is the key of an entity of the store
FoundCustomers(valid_data, store) ==
    {k \in 1..Len(valid_data) :
        \E c \in store : c.email = Lower(Strip(valid_data[k].email))}
FoundProducts(valid_data, store) ==
    {k \in 1..Len(valid_data) :
        \E p \in store : p.sku = Upper(Strip(valid_data[k].sku))}

\* C21: a row of the valid set whose natural key is in the store when the
\* customer or product loader starts is counted as skipped, the entities of
\* the store stay as they were and no entity is added for the row, and a
\* skipped customer's email is mapped to the stored identifier.
C21_SkipOnExistingKey ==
    /\ \A a \in Calls("customers") :
          LET out == log[a].out
              before == log[a].customers_before
              found == FoundCustomers(out.valid_data, before)
          IN  (out.active /\ ~out.raised) =>
                /\ Get(out.entry, "customers_skipped", 0) >= Cardinality(found)
                /\ before \subseteq out.customers
                /\ Cardinality(out.customers \ before)
                      <= Len(out.valid_data) - Cardinality(found)
                /\ \A k \in found :
                      LET email == Lower(Strip(out.valid_data[k].email)) IN
                      /\ email \in DOMAIN out.customer_mapping
                      /\ \E c \in before : /\ c.email = email
                                           /\ c.customer_id = out.customer_mapping[email]
    /\ \A a \in Calls("products") :
          LET out == log[a].out
              before == log[a].products_before
              found == FoundProducts(out.valid_data, before)
          IN  (out.active /\ ~out.raised) =>
                /\ Get(out.entry, "products_skipped", 0) >= Cardinality(found)
                /\ before \subseteq out.products
                /\ Cardinality(out.products \ before)
                      <= Len(out.valid_data) - Cardinality(found)
\* a customers file and a products file have each been loaded with a row
\* whose key was in the store before
C21_Witness ==
    /\ \E a \in Calls("customers") :
          /\ log[a].out.active /\ ~log[a].out.raised
          /\ FoundCustomers(log[a].out.valid_data, log[a].customers_before) # {}
    /\ \E a \in Calls("products") :
          /\ log[a].out.active /\ ~log[a].out.raised
          /\ FoundProducts(log[a].out.valid_data, log[a].products_before) # {}

\* the rows of a valid set of products that reach the category lookup and
\* whose category code is not in the table: the SKU is not in the store and
\* no earlier row of the file with a known category has it
UnknownCategory(valid_data, store) ==
    {k \in 1..Len(valid_data) :
        /\ TableGet(Dictionary_ProductCategory, valid_data[k].category_code, None) = None
        /\ k \notin FoundProducts(valid_data, store)
        /\ ~\E j \in 1..(k - 1) :
              /\ Upper(Strip(valid_data[j].sku)) = Upper(Strip(valid_data[k].sku))
              /\ TableGet(Dictionary_ProductCategory,
                          valid_data[j].category_code, None) # None}
\* the rows of a valid set of orders whose payment-method code is not in
\* the table
UnknownPayment(valid_data) ==
    {k \in 1..Len(valid_data) :
        TableGet(Dictionary_PaymentMethod, valid_data[k].payment_method_code, None) = None}
\* the entries of an errors list with a code
WithCode(errors, code) == {k \in 1..Len(errors) : errors[k].code = code}

\* C22: a product row that reaches the category lookup with a code the
\* table does not have, and an order row whose payment-method code the table
\* does not have, each add one message naming the code to the errors list
\* and create nothing; the loader goes on with the next row and returns.
C22_UnresolvedLookup ==
    /\ \A a \in Calls("products") :
          LET out == log[a].out
              unknown == UnknownCategory(out.valid_data, log[a].products_before)
              errors == out.load_errors
          IN  out.active =>
                /\ Cardinality(WithCode(errors, "category_not_found"))
                      = Cardinality(unknown)
                /\ \A k \in unknown : \E e \in WithCode(errors, "category_not_found") :
                      errors[e].arg = out.valid_data[k].category_code
                /\ Cardinality(out.products \ log[a].products_before)
                      <= Len(out.valid_data) - Cardinality(unknown)
                /\ \A p \in out.products : p.category_id # None
    /\ \A a \in Calls("orders") :
          LET out == log[a].out
              unknown == UnknownPayment(out.valid_data)
              errors == out.load_errors
          IN  out.active =>
                /\ Cardinality(WithCode(errors, "payment_method_not_found"))
                      = Cardinality(unknown)
                /\ \A k \in unknown : \E e \in WithCode(errors, "payment_method_not_found") :
                      errors[e].arg = out.valid_data[k].payment_method_code
                /\ Cardinality(out.orders \ log[a].orders_before)
                      = Len(out.valid_data) - Len(errors)
                /\ Cardinality(out.orders \ log[a].orders_before)
                      <= Len(out.valid_data) - Cardinality(unknown)
                /\ \A o \in out.orders : o.payment_method_id # None
\* an orders file with two valid rows of an unknown payment method has
\* been loaded
C22_Witness ==
    \E a \in Calls("orders") :
        /\ log[a].out.active
        /\ Cardinality(UnknownPayment(log[a].out.valid_data)) >= 2
        /\ Len(log[a].out.load_errors) >= 2

\* a status cell that specifies no status: missing or blank
Unspecified(label) == IsNa(label) \/ Strip(label.s) = <<>>
\* the canonical code the order-status table gives a label
StatusCode(label) ==
    IF Unspecified(label) THEN <<"N", "E", "W">>
    ELSE TableGet(ORDER_STATUS_MAPPING, Upper(clean_text(label).s),
                  Upper(clean_text(label).s))

\* C23: the order transformer gives a row the canonical code of its status
\* label (NEW when no status is specified), and the loader stores the order
\* with the status of that code.
C23_OrderStatus ==
    /\ lab.mapped >= 1 => lab.code = StatusCode(lab.label)
    /\ (lab.mapped = 2 /\ \E k \in DOMAIN Dictionary_OrderStatus :
                             Dictionary_OrderStatus[k][1] = StatusCode(lab.label))
          => lab.recode = StatusCode(lab.label)

\* the store before and after a call, and the keys of the call's valid set
StoreBefore(a) ==
    log[a].customers_before \cup log[a].products_before \cup log[a].orders_before
StoreAfter(a) == log[a].out.customers \cup log[a].out.products \cup log[a].out.orders
FromValidSet(a, e) ==
    LET valid_data == log[a].out.valid_data IN
    CASE log[a].kind = "customers" ->
            \E k \in 1..Len(valid_data) : Lower(Strip(valid_data[k].email)) = e.email
      [] log[a].kind = "products" ->
            \E k \in 1..Len(valid_data) : Upper(Strip(valid_data[k].sku)) = e.sku
      [] OTHER ->
            \E k \in 1..Len(valid_data) : valid_data[k].customer_id = e.customer_id
\* how the call ended: "" when the statistics were recorded
Failure(a) == Get(log[a].out.entry, "error", "")

\* C24: the stages of a file run in the order extract, transform, load,
\* error report, statistics, each only when the one before it has not
\* failed: a file that cannot be read leaves no rows, no entity and no
\* artifact; the loader creates entities from rows of the valid set only; a
\* load that fails leaves no artifact; an artifact is written exactly when
\* the rejected set is non-empty and the stages before it succeeded; an
\* artifact that cannot be written leaves the load done and no counts; and
\* otherwise the counts of the valid and rejected sets are recorded.
C24_StageOrder ==
    \A a \in 1..Len(log) :
        LET out == log[a].out IN
        /\ Failure(a) \in {"", "FileReadError", "PendingRollbackError", "OSError"}
        /\ Failure(a) = "FileReadError" <=> ~log[a].file.readable
        /\ Failure(a) = "FileReadError" =>
              /\ out.raw_data = <<>> /\ out.valid_data = <<>> /\ out.errors_data = <<>>
              /\ StoreAfter(a) = StoreBefore(a)
        /\ \A e \in StoreAfter(a) \ StoreBefore(a) : FromValidSet(a, e)
        /\ Len(out.valid_data) + Len(out.errors_data) = Len(out.raw_data)
        /\ Failure(a) = "OSError" <=>
              (log[a].file.readable /\ Failure(a) # "PendingRollbackError"
                  /\ out.errors_data # <<>> /\ ~out.writable)
        /\ out.report # <<>> <=> (Failure(a) = "" /\ out.errors_data # <<>>)
        /\ out.report # <<>> => out.report[1].rows = out.errors_data
        /\ Failure(a) = "" =>
              /\ out.entry.valid_records = Len(out.valid_data)
              /\ out.entry.error_records = Len(out.errors_data)
        /\ Failure(a) # "" <=> out.raised
\* a products file with a rejected row has been processed after the load
\* of a customers file left the session unusable: its loader failed and no
\* artifact was written
C24_Witness ==
    \E a, b \in 1..Len(log) :
        /\ log[a].run = log[b].run /\ a < b
        /\ log[a].kind = "customers" /\ StoreAfter(a) # StoreBefore(a)
        /\ log[b].kind = "products"
        /\ Failure(b) = "PendingRollbackError"
        /\ log[b].out.errors_data # <<>> /\ log[b].out.writable
        /\ log[b].out.report = <<>>

\* C25: when a run has ended, the run report was emitted before the
\* dashboard was rendered: every report in the run's events precedes the
\* dashboard, and there is no dashboard without a report.
C25_ReportBeforeDashboard ==
    pc = "done" /\ run >= 1 =>
        \A k \in 1..Len(events) :
            events[k] = "dashboard" =>
                /\ \E j \in 1..(k - 1) : events[j] = "report"
                /\ \A j \in (k + 1)..Len(events) : events[j] # "report"

\* the keywords of an entity type, and whether a file name has one of them
Keywords(kind) ==
    CASE kind = "customers" -> {KwCustomer, KwKlient}
      [] kind = "products" -> {KwProduct, KwTovar}
      [] kind = "orders" -> {KwOrder, KwZakaz}
      [] OTHER -> {}
HasKeyword(name, kind) == \E kw \in Keywords(kind) : Contains(Lower(name), kw)
NoKeyword(name) == \A kind \in {"customers", "products", "orders"} : ~HasKeyword(name, kind)
\* the positions the loop of the current run has passed
Passed == IF pc = "idle" THEN {} ELSE 1..(i - 1)

\* C26: a file is processed as an entity type whose keyword, English or
\* Russian, is in its lower-cased name; every file the loop has passed whose
\* name has a keyword was processed; and a file whose name has none is passed
\* with the statistics, the store, the Identity Map and the artifacts
\* unchanged.
C26_FilenameRouting ==
    /\ [](\A a \in 1..Len(log) : HasKeyword(log[a].file.name, log[a].kind))
    /\ [](\A k \in Passed :
            NoKeyword(files[k].name)
                <=> ~\E a \in 1..Len(log) : log[a].run = run /\ log[a].pos = k)
    /\ [][(pc = "loop" /\ i <= Len(files) /\ NoKeyword(files[i].name)) =>
            /\ i' = i + 1
            /\ UNCHANGED <<stats, customers, products, orders, customer_mapping,
                           artifacts, events, log>>]_vars
\* a run has processed a file named in Russian as customers and passed a
\* file whose name has no keyword
C26_Witness ==
    /\ \E a \in 1..Len(log) :
          /\ log[a].run = run /\ log[a].kind = "customers"
          /\ log[a].file.name = FileKlienty
    /\ \E k \in Passed : files[k].name = FileMisc

\* what a numeric cell says: its number in hundredths, or that it has none
\* (the empty cell, text that is not a number)
NumberIn(cell) ==
    CASE cell = Num(150) -> <<15000>>
      [] cell = Num(0) -> <<0>>
      [] cell = Num(-100) -> <<-10000>>
      [] cell = Str(<<"1", "2", ".", "5">>) -> <<1250>>
      [] cell = Str(<<"-", "1">>) -> <<-100>>
      [] cell = Str(<<" ", "7", " ">>) -> <<700>>
      [] OTHER -> <<>>
AtLeast(cell, bound) == NumberIn(cell) # <<>> /\ NumberIn(cell)[1] >= bound
Above(cell, bound) == NumberIn(cell) # <<>> /\ NumberIn(cell)[1] > bound
IsText(cell) == cell.t = "str" /\ NumberIn(cell) = <<>>

\* C27: the product validator accepts a row only when its weight is a
\* number above 0 and its price a number of at least 0, the order validator
\* only when the total is a number of at least 0, and text that is not a
\* number gives a violation in the list.
C27_NumericDomain ==
    probe.done =>
        /\ probe.kind = "products" =>
              /\ probe.errors = <<>>
                    <=> (Above(probe.row.weight, 0) /\ AtLeast(probe.row.price, 0))
              /\ IsText(probe.row.weight) => "bad_weight_format" \in Codes(probe.errors)
              /\ IsText(probe.row.price) => "bad_price_format" \in Codes(probe.errors)
        /\ probe.kind = "orders" =>
              /\ probe.errors = <<>> <=> AtLeast(probe.row.total_amount, 0)
              /\ IsText(probe.row.total_amount)
                    => "bad_amount_format" \in Codes(probe.errors)

\* C28: when a loader has returned, every row of the valid set it was given
\* is counted once: created + skipped + the number of error entries is
\* total_processed, the size of the valid set (the order loader has no
\* skipped count).
C28_LoaderAccounting ==
    \A a \in 1..Len(log) :
        LET out == log[a].out
            entry == out.entry
        IN  Failure(a) = "" =>
              /\ entry.total_processed = Len(out.valid_data)
              /\ entry.errors = out.load_errors
              /\ log[a].kind = "customers" =>
                    entry.customers_created + entry.customers_skipped
                        + Len(entry.errors) = entry.total_processed
              /\ log[a].kind = "products" =>
                    entry.products_created + entry.products_skipped
                        + Len(entry.errors) = entry.total_processed
              /\ log[a].kind = "orders" =>
                    entry.orders_created + Len(entry.errors) = entry.total_processed
\* a customers file with a row the store refused and a row it created, and
\* an orders file with a row created, have been loaded
C28_Witness ==
    /\ \E a \in Calls("customers") :
          /\ Failure(a) = ""
          /\ log[a].out.entry.customers_created >= 1
          /\ Len(log[a].out.entry.errors) >= 1
    /\ \E a \in Calls("orders") :
          /\ Failure(a) = ""
          /\ log[a].out.entry.orders_created >= 1

\* the normalized emails of the rows a customers call gave its loader
LoadedEmails(a) ==
    {Lower(Strip(log[a].out.valid_data[k].email)) : k \in 1..Len(log[a].out.valid_data)}
\* the call's loader returned: the call succeeded, or only the writing of
\* its error artifact failed
LoaderReturned(a) == Failure(a) \in {"", "OSError"}
\* the order transformer, given this map, puts the row in the rejected set
\* with a "customer not found" violation
RejectedAsNotFound(row, mapping) ==
    LET t == transform_order_data(<<[index |-> 0, row |-> row]>>, mapping, 0)
    IN  /\ t.valid_rows = <<>>
        /\ Len(t.error_rows) = 1
        /\ "customer_not_found" \in Codes(t.error_rows[1]._errors)
\* the order rows whose customer is in the map before the call and is not
\* among the customers the call's file loaded
OnlyBefore(a) ==
    {row \in OrderRows :
        /\ validate_order_row(row) = <<>>
        /\ Lower(clean_text(row.customer_email).s) \in DOMAIN log[a].mapping_before
        /\ Lower(clean_text(row.customer_email).s) \notin LoadedEmails(a)}
\* the map a customers call leaves is the map the next call of the run finds
HandedOn ==
    \A a, b \in 1..Len(log) :
        (log[a].run = log[b].run /\ b = a + 1) =>
            log[b].mapping_before = log[a].out.customer_mapping
\* the first call of a run finds an empty map
FirstCalls == {a \in 1..Len(log) : a = 1 \/ log[a - 1].run # log[a].run}

\* C29 as stated: a customers file that fails as a whole (its statistics
\* entry is a failure entry) leaves the Identity Map as it was.
C29_FailedFileKeepsMap ==
    \A a \in Calls("customers") :
        Failure(a) # "" => log[a].out.customer_mapping = log[a].mapping_before
\* C29: a customers file whose loader returned replaces the Identity Map by
\* the map of that file alone, its keys being the file's loaded emails that
\* the store holds and its values their stored identifiers; a customers
\* file that cannot be read or whose loader raises leaves the map as it
\* was; an order of a customer who was in the map only before the
\* replacement is then rejected as "customer not found"; and an
\* orchestrator that has processed no customers file rejects every order
\* row.
C29_MapReplaced ==
    /\ HandedOn
    /\ \A a \in FirstCalls : log[a].mapping_before = EmptyMap
    /\ TaskState.customer_mapping = EmptyMap
    /\ \A a \in Calls("customers") :
          LET out == log[a].out IN
          /\ LoaderReturned(a) =>
                /\ DOMAIN out.customer_mapping =
                      {e \in LoadedEmails(a) : \E c \in out.customers : c.email = e}
                /\ \A e \in DOMAIN out.customer_mapping :
                      \E c \in out.customers :
                          c.email = e /\ c.customer_id = out.customer_mapping[e]
                /\ \A row \in OnlyBefore(a) :
                      /\ ~RejectedAsNotFound(row, log[a].mapping_before)
                      /\ RejectedAsNotFound(row, out.customer_mapping)
          /\ ~LoaderReturned(a) => out.customer_mapping = log[a].mapping_before
    /\ \A a \in Calls("orders") :
          log[a].mapping_before = EmptyMap =>
              /\ log[a].out.valid_data = <<>>
              /\ Len(log[a].out.errors_data) = Len(log[a].out.raw_data)
              /\ log[a].out.orders = log[a].orders_before
\* a run has processed two customers files, and the second replaced a
\* non-empty map by a non-empty one without a customer an order row names
C29_Witness ==
    \E a \in Calls("customers") :
        /\ Failure(a) = ""
        /\ OnlyBefore(a) # {}
        /\ log[a].out.customer_mapping # EmptyMap
\* the identifiers the customer transformer minted in the calls of a run
MintedByTransformer(r) ==
    UNION {{log[b].out.valid_data[j].customer_id : j \in 1..Len(log[b].out.valid_data)} :
              b \in {c \in Calls("customers") : log[c].run = r}}

\* C30: every order the pipeline creates comes from a row of the valid set
\* whose customer_id is the Identity Map's value for the row's normalized
\* customer email; that value is the identifier of a stored customer with
\* that email, and is not an identifier the customer transformer minted.
C30_ReferentialIntegrity ==
    \A a \in Calls("orders") :
        LET e == log[a]
            kept == Kept(e.out)
            valid == e.out.valid_data
        IN  /\ Len(valid) = Len(kept)
            /\ \A k \in 1..Len(valid) :
                  LET email == OrderEmail(kept[k]) IN
                  /\ email \in DOMAIN e.mapping_before
                  /\ valid[k].customer_id = e.mapping_before[email]
                  /\ \E c \in e.customers_before :
                        c.email = email /\ c.customer_id = valid[k].customer_id
            /\ \A o \in e.out.orders \ e.orders_before :
                  /\ \E k \in 1..Len(valid) :
                        /\ o.customer_id = valid[k].customer_id
                        /\ o.total_amount = valid[k].total_amount.v
                        /\ o.delivery_address = valid[k].delivery_address
                  /\ \E c \in e.out.customers : c.customer_id = o.customer_id
                  /\ o.customer_id \notin MintedByTransformer(e.run)
\* an order has been created for one of two customers the map holds
C30_Witness ==
    \E a \in Calls("orders") :
        /\ log[a].out.orders # log[a].orders_before
        /\ Cardinality(DOMAIN log[a].mapping_before) >= 2

====
